---- MODULE Spec2Model ----
(***************************************************************************)
(* Block persistence and ordering core of the node:                        *)
(*   src/src/blockchain/block_store.rs                                     *)
(* The three sled trees (main, order, difficulty) of BlockStore, the       *)
(* direct write and read operations, and BlockStoreOverlay, the staged     *)
(* view over the same three trees.                                         *)
(*                                                                         *)
(* Abstractions: a 32-byte HeaderHash / TransactionHash / Signature is one *)
(* word (a small integer); a u8 is an integer 0..255; a sled tree is a     *)
(* function from its present keys to their values.                         *)
(***************************************************************************)
EXTENDS Integers, Sequences, FiniteSets, TLC

\* ------------------------------------------------------------------ bounds

\* Longest slice given to one write call.
MaxLen == 2
\* Longest slice of keys given to one read through the overlay.
MaxGetLen == 1
\* Heights of the order tree in the cursor specification are 0..MaxOrderHeight.
MaxOrderHeight == 2
\* Largest n given to get_after.
MaxN == 2
\* The most auth calls of the proposal of a Dao::Exec call.
MaxAuthCalls == 2

\* -------------------------------------------------------- program constants

\* Width in bytes of a u64 key (u64::to_be_bytes).
U64Bytes == 8

SLED_BLOCK_TREE == "_blocks"
SLED_BLOCK_ORDER_TREE == "_block_order"
SLED_BLOCK_DIFFICULTY_TREE == "_block_difficulty"
TreeNames == {SLED_BLOCK_TREE, SLED_BLOCK_ORDER_TREE, SLED_BLOCK_DIFFICULTY_TREE}

\* ---------------------------------------------------------------- universes

\* Header hashes, and the heights the overlay's callers name.
Hashes == {1, 2}
Heights == {0, 1}
OrderHeights == 0..MaxOrderHeight

SeqsUpTo(S, n) == UNION {[1..m -> S] : m \in 0..n}

Range(s) == {s[i] : i \in 1..Len(s)}

\* Block::new
Block_new(header, txs, signature) == [header |-> header, txs |-> txs, signature |-> signature]

\* The blocks given to the store: two of header hash 1, one of header hash 2.
Blocks == {Block_new(1, <<>>, 0), Block_new(1, <<1>>, 0), Block_new(2, <<>>, 0)}

BlockRanks_new(target_rank, targets_rank, hash_rank, hashes_rank) ==
    [target_rank |-> target_rank, targets_rank |-> targets_rank,
     hash_rank |-> hash_rank, hashes_rank |-> hashes_rank]

BlockDifficulty_new(height, timestamp, difficulty, cummulative_difficulty, ranks) ==
    [height |-> height, timestamp |-> timestamp, difficulty |-> difficulty,
     cummulative_difficulty |-> cummulative_difficulty, ranks |-> ranks]

\* The difficulty records given to the store: two per height.
Difficulties ==
    {BlockDifficulty_new(h, 0, d, d, BlockRanks_new(0, 0, 0, 0)) : h \in Heights, d \in {0, 1}}

\* The inputs of the commit protocol: the blocks of one header hash, the genesis
\* height and its difficulty records.
GenesisBlocks == {b \in Blocks : b.header = 1}
GenesisHeights == {0}
GenesisDifficulties == {d \in Difficulties : d.height = 0}

\* Option<T>
None == <<>>
Some(v) == <<v>>

\* Result<T>, and a panic of the calling thread.
Ok(v) == [tag |-> "Ok", val |-> v]
Err(e) == [tag |-> "Err", val |-> e]
Panic == [tag |-> "Panic", val |-> <<"index out of bounds">>]

\* -------------------------------------------------------------------- codec

RECURSIVE be_bytes(_, _)
\* The width least significant bytes of n, most significant first.
be_bytes(n, width) ==
    IF width = 0 THEN <<>> ELSE Append(be_bytes(n \div 256, width - 1), n % 256)

RECURSIVE le_bytes(_, _)
\* The width least significant bytes of n, least significant first.
le_bytes(n, width) ==
    IF width = 0 THEN <<>> ELSE <<n % 256>> \o le_bytes(n \div 256, width - 1)

\* The key written with u64::to_le_bytes instead.
to_le_bytes(n) == le_bytes(n, U64Bytes)

\* u64::to_be_bytes: the key of the order and difficulty trees.
to_be_bytes(n) == be_bytes(n, U64Bytes)

\* u64::encode of darkfi_serial: little-endian.
u64_encode(n) == le_bytes(n, U64Bytes)

RECURSIVE from_bytes_be(_)
\* BigUint::from_bytes_be, also the decoding of a big-endian u64 key.
from_bytes_be(bytes) ==
    IF Len(bytes) = 0 THEN 0
    ELSE 256 * from_bytes_be(SubSeq(bytes, 1, Len(bytes) - 1)) + bytes[Len(bytes)]

RECURSIVE from_bytes_le(_)
from_bytes_le(bytes) ==
    IF Len(bytes) = 0 THEN 0
    ELSE bytes[1] + 256 * from_bytes_le(SubSeq(bytes, 2, Len(bytes)))

u64_decode(bytes) == from_bytes_le(bytes)

RECURSIVE biguint_to_bytes_be(_)
\* BigUint::to_bytes_be: the minimal big-endian bytes, one zero byte for zero.
biguint_to_bytes_be(n) ==
    IF n < 256 THEN <<n>>
    ELSE Append(biguint_to_bytes_be(n \div 256), n % 256)

\* Vec<u8>::encode: the length (a VarInt, one byte below 0xfd) and the bytes.
vec_u8_encode(bytes) == <<Len(bytes)>> \o bytes

\* Vec<u8>::decode at position pos of s: the bytes and the next position.
vec_u8_decode(s, pos) ==
    [val |-> SubSeq(s, pos + 1, pos + s[pos]), next |-> pos + 1 + s[pos]]

\* impl Encodable for BlockRanks
BlockRanks_encode(r) ==
    vec_u8_encode(biguint_to_bytes_be(r.target_rank))
        \o vec_u8_encode(biguint_to_bytes_be(r.targets_rank))
        \o vec_u8_encode(biguint_to_bytes_be(r.hash_rank))
        \o vec_u8_encode(biguint_to_bytes_be(r.hashes_rank))

\* BlockRanks::decode assigning the second and third vectors to each other's field.
BlockRanks_decode_swapped(s, pos) ==
    LET a == vec_u8_decode(s, pos)
        b == vec_u8_decode(s, a.next)
        c == vec_u8_decode(s, b.next)
        d == vec_u8_decode(s, c.next)
    IN  [val |-> BlockRanks_new(from_bytes_be(a.val), from_bytes_be(c.val),
                                from_bytes_be(b.val), from_bytes_be(d.val)),
         next |-> d.next]

\* impl Decodable for BlockRanks, reading s from position pos.
BlockRanks_decode(s, pos) ==
    LET a == vec_u8_decode(s, pos)
        b == vec_u8_decode(s, a.next)
        c == vec_u8_decode(s, b.next)
        d == vec_u8_decode(s, c.next)
    IN  [val |-> BlockRanks_new(from_bytes_be(a.val), from_bytes_be(b.val),
                                from_bytes_be(c.val), from_bytes_be(d.val)),
         next |-> d.next]

RECURSIVE biguint_to_bytes_le(_)
\* BigUint::to_bytes_le: the minimal little-endian bytes.
biguint_to_bytes_le(n) ==
    IF n < 256 THEN <<n>>
    ELSE <<n % 256>> \o biguint_to_bytes_le(n \div 256)

\* BlockDifficulty::encode writing the cumulative difficulty with to_bytes_le.
BlockDifficulty_encode_le_cumulative(d) ==
    u64_encode(d.height)
        \o u64_encode(d.timestamp)
        \o vec_u8_encode(biguint_to_bytes_be(d.difficulty))
        \o vec_u8_encode(biguint_to_bytes_le(d.cummulative_difficulty))
        \o BlockRanks_encode(d.ranks)

\* impl Encodable for BlockDifficulty
BlockDifficulty_encode(d) ==
    u64_encode(d.height)
        \o u64_encode(d.timestamp)
        \o vec_u8_encode(biguint_to_bytes_be(d.difficulty))
        \o vec_u8_encode(biguint_to_bytes_be(d.cummulative_difficulty))
        \o BlockRanks_encode(d.ranks)

\* impl Decodable for BlockDifficulty
BlockDifficulty_decode(s) ==
    LET height == u64_decode(SubSeq(s, 1, U64Bytes))
        timestamp == u64_decode(SubSeq(s, U64Bytes + 1, 2 * U64Bytes))
        a == vec_u8_decode(s, 2 * U64Bytes + 1)
        b == vec_u8_decode(s, a.next)
        ranks == BlockRanks_decode(s, b.next)
    IN  BlockDifficulty_new(height, timestamp, from_bytes_be(a.val),
                            from_bytes_be(b.val), ranks.val)

\* #[derive(SerialEncodable)] for Block: header, txs (count, elements), signature.
Block_encode(b) == <<b.header>> \o <<Len(b.txs)>> \o b.txs \o <<b.signature>>

\* #[derive(SerialDecodable)] for Block
Block_decode(s) ==
    [header |-> s[1], txs |-> SubSeq(s, 3, 2 + s[2]), signature |-> s[3 + s[2]]]

\* Block::hash: a block's hash is the hash of its header.
Block_hash(block) == block.header

\* Header::hash: the hash of a header (a number here), one hash per header.
Header_hash(header) == header + 10

\* Transaction::hash
Transaction_hash(tx) == tx + 20

\* BlockInfo::new
BlockInfo_new(header, txs, signature) ==
    [header |-> header, txs |-> txs, signature |-> signature]

\* BlockInfo::hash: the hash of its header.
BlockInfo_hash(block_info) == Header_hash(block_info.header)

\* from_block_info taking the header field for the hash of the header.
Block_from_block_info_raw_header(block_info) ==
    Block_new(block_info.header,
              [k \in 1..Len(block_info.txs) |-> Transaction_hash(block_info.txs[k])],
              block_info.signature)

\* Block::from_block_info: the header's hash, the transactions' hashes, the signature.
Block_from_block_info(block_info) ==
    Block_new(Header_hash(block_info.header),
              [k \in 1..Len(block_info.txs) |-> Transaction_hash(block_info.txs[k])],
              block_info.signature)

\* --------------------------------------------------------------- KV backend

\* A tree with no record.
EmptyTree == [k \in {} |-> 0]

\* sled::Tree::get
Tree_get(tree, key) == IF key \in DOMAIN tree THEN Some(tree[key]) ELSE None

\* sled::Tree::contains_key
Tree_contains_key(tree, key) == key \in DOMAIN tree

\* sled::Batch::insert: a later insert of a key replaces an earlier one.
Batch_insert(batch, key, value) == (key :> value) @@ batch

\* sled::Tree::apply_batch: every write of the batch, in one step.
Tree_apply_batch(tree, batch) == batch @@ tree

RECURSIVE LexLess(_, _)
\* The order of sled's keys: lexicographic over the bytes.
LexLess(a, b) ==
    IF Len(b) = 0 THEN FALSE
    ELSE IF Len(a) = 0 THEN TRUE
    ELSE IF a[1] # b[1] THEN a[1] < b[1]
    ELSE LexLess(Tail(a), Tail(b))

\* The least key of a non-empty set of keys.
LeastKey(keys) == CHOOSE k \in keys : \A j \in keys : j = k \/ LexLess(k, j)

\* The greatest key of a non-empty set of keys.
GreatestKey(keys) == CHOOSE k \in keys : \A j \in keys : j = k \/ LexLess(j, k)

\* sled::Tree::get_gt: the record of the least key strictly greater than key.
Tree_get_gt(tree, key) ==
    LET above == {k \in DOMAIN tree : LexLess(key, k)}
    IN  IF above = {} THEN None
        ELSE Some(<<LeastKey(above), tree[LeastKey(above)]>>)

\* sled::Tree::first
Tree_first(tree) ==
    IF DOMAIN tree = {} THEN None
    ELSE Some(<<LeastKey(DOMAIN tree), tree[LeastKey(DOMAIN tree)]>>)

\* sled::Tree::last
Tree_last(tree) ==
    IF DOMAIN tree = {} THEN None
    ELSE Some(<<GreatestKey(DOMAIN tree), tree[GreatestKey(DOMAIN tree)]>>)

RECURSIVE Tree_iter_rev(_)
\* sled::Tree::iter().rev(): the records from the greatest key down.
Tree_iter_rev(tree) ==
    IF DOMAIN tree = {} THEN <<>>
    ELSE LET k == GreatestKey(DOMAIN tree)
         IN  <<<<k, tree[k]>>>> \o Tree_iter_rev([j \in DOMAIN tree \ {k} |-> tree[j]])

\* Iterator::take: the first n items.
Iter_take(items, n) == SubSeq(items, 1, IF n < Len(items) THEN n ELSE Len(items))

\* sled::Tree::len
Tree_len(tree) == Cardinality(DOMAIN tree)

\* parse_u64_key_record: the key decoded as a big-endian u64, the value deserialized.
parse_u64_key_record(record) == <<from_bytes_be(record[1]), record[2]>>

\* -------------------------------------------------------------------- state

VARIABLES
    main,        \* BlockStore.main: block hash -> serialized Block
    order,       \* BlockStore.order: big-endian order number -> block hash
    difficulty,  \* BlockStore.difficulty: big-endian height -> serialized BlockDifficulty
    ov,          \* the overlay behind SledDbOverlayPtr: open or not, and a buffer per tree
    last,        \* the last call: its name, a summary of its arguments, its result
    ovw,         \* history: per tree, the last value the callers gave the open overlay for each key
    base,        \* history: the three trees as direct writes and past commits alone made them
    threads,     \* the overlay's mutex: its holder, and the call of each thread inside it
    dao          \* the DAO contract: its proposal database, and what Dao::Exec did with it

vars == <<main, order, difficulty, ov, last, ovw, base, threads, dao>>

\* The state the operations read and write.
World == [main |-> main, order |-> order, difficulty |-> difficulty, ov |-> ov]

NoCache == [t \in TreeNames |-> EmptyTree]

\* BlockStore::new: the tree each field of the store is.
StoreTree(w, tree_name) ==
    CASE tree_name = SLED_BLOCK_TREE -> w.main
      [] tree_name = SLED_BLOCK_ORDER_TREE -> w.order
      [] tree_name = SLED_BLOCK_DIFFICULTY_TREE -> w.difficulty

\* ---------------------------------------------------- BlockStore: batches

RECURSIVE insert_batch_loop(_, _, _)
insert_batch_loop(blocks, i, acc) ==
    IF i > Len(blocks) THEN acc
    ELSE LET blockhash == Block_hash(blocks[i])
         IN  insert_batch_loop(blocks, i + 1,
                 [batch |-> Batch_insert(acc.batch, blockhash, Block_encode(blocks[i])),
                  ret |-> Append(acc.ret, blockhash)])

RECURSIVE insert_batch_front_loop(_, _, _)
insert_batch_front_loop(blocks, i, acc) ==
    IF i > Len(blocks) THEN acc
    ELSE LET blockhash == Block_hash(blocks[i])
         IN  insert_batch_front_loop(blocks, i + 1,
                 [batch |-> Batch_insert(acc.batch, blockhash, Block_encode(blocks[i])),
                  ret |-> <<blockhash>> \o acc.ret])

\* insert_batch putting each hash at the front of ret.
insert_batch_front(blocks) ==
    insert_batch_front_loop(blocks, 1, [batch |-> EmptyTree, ret |-> <<>>])

RECURSIVE insert_batch_by_position_loop(_, _, _)
insert_batch_by_position_loop(blocks, i, acc) ==
    IF i > Len(blocks) THEN acc
    ELSE LET blockhash == Block_hash(blocks[i])
         IN  insert_batch_by_position_loop(blocks, i + 1,
                 [batch |-> Batch_insert(acc.batch, blockhash + i - 1,
                                         Block_encode(blocks[i])),
                  ret |-> Append(acc.ret, blockhash)])

\* insert_batch keying each record by its hash and its position in the slice.
insert_batch_by_position(blocks) ==
    insert_batch_by_position_loop(blocks, 1, [batch |-> EmptyTree, ret |-> <<>>])

\* BlockStore::insert_batch: the batch and the hashes, in input order.
insert_batch(blocks) == insert_batch_loop(blocks, 1, [batch |-> EmptyTree, ret |-> <<>>])

RECURSIVE insert_batch_order_loop(_, _, _, _)
insert_batch_order_loop(numbers, hashes, i, batch) ==
    IF i > Len(numbers) THEN [panic |-> FALSE, batch |-> batch]
    ELSE IF i > Len(hashes) THEN [panic |-> TRUE, batch |-> batch]
    ELSE insert_batch_order_loop(numbers, hashes, i + 1,
             Batch_insert(batch, to_be_bytes(numbers[i]), hashes[i]))

RECURSIVE insert_batch_order_first_loop(_, _, _, _)
insert_batch_order_first_loop(numbers, hashes, i, batch) ==
    IF i > Len(numbers) THEN [panic |-> FALSE, batch |-> batch]
    ELSE IF i > Len(hashes) THEN [panic |-> TRUE, batch |-> batch]
    ELSE insert_batch_order_first_loop(numbers, hashes, i + 1,
             IF to_be_bytes(numbers[i]) \in DOMAIN batch THEN batch
             ELSE Batch_insert(batch, to_be_bytes(numbers[i]), hashes[i]))

\* insert_batch_order keeping, for an order number given twice, the first hash.
insert_batch_order_first_wins(numbers, hashes) ==
    insert_batch_order_first_loop(numbers, hashes, 1, EmptyTree)

\* BlockStore::insert_batch_order: hashes[i] panics when hashes is the shorter slice.
insert_batch_order(numbers, hashes) == insert_batch_order_loop(numbers, hashes, 1, EmptyTree)

RECURSIVE insert_batch_difficulty_loop(_, _, _)
insert_batch_difficulty_loop(block_difficulties, i, batch) ==
    IF i > Len(block_difficulties) THEN batch
    ELSE insert_batch_difficulty_loop(block_difficulties, i + 1,
             Batch_insert(batch, to_be_bytes(block_difficulties[i].height),
                          BlockDifficulty_encode(block_difficulties[i])))

\* BlockStore::insert_batch_difficulty
insert_batch_difficulty(block_difficulties) ==
    insert_batch_difficulty_loop(block_difficulties, 1, EmptyTree)

\* ------------------------------------------------------ BlockStore: writes

\* BlockStore::insert. backend_ok: whether sled applies the batch.
BlockStore_insert(w, blocks, backend_ok) ==
    LET b == insert_batch(blocks)
    IN  IF backend_ok
        THEN [w |-> [w EXCEPT !.main = Tree_apply_batch(@, b.batch)], res |-> Ok(b.ret)]
        ELSE [w |-> w, res |-> Err(<<"Io">>)]

\* insert_order whose batch covers the difficulty tree as well: a genesis record for
\* each order number, applied with the order entries.
BlockStore_insert_order_with_difficulty(w, numbers, hashes, backend_ok) ==
    LET b == insert_batch_order(numbers, hashes)
        d == insert_batch_difficulty(
                 [i \in 1..Len(numbers) |->
                     BlockDifficulty_new(numbers[i], 0, 0, 0, BlockRanks_new(0, 0, 0, 0))])
    IN  IF b.panic THEN [w |-> w, res |-> Panic]
        ELSE IF backend_ok
        THEN [w |-> [w EXCEPT !.order = Tree_apply_batch(@, b.batch),
                              !.difficulty = Tree_apply_batch(@, d)],
              res |-> Ok(<<>>)]
        ELSE [w |-> w, res |-> Err(<<"Io">>)]

\* BlockStore::insert_order
BlockStore_insert_order(w, numbers, hashes, backend_ok) ==
    LET b == insert_batch_order(numbers, hashes)
    IN  IF b.panic THEN [w |-> w, res |-> Panic]
        ELSE IF backend_ok
        THEN [w |-> [w EXCEPT !.order = Tree_apply_batch(@, b.batch)], res |-> Ok(<<>>)]
        ELSE [w |-> w, res |-> Err(<<"Io">>)]

RECURSIVE BlockStore_insert_difficulty_each_loop(_, _, _, _)
BlockStore_insert_difficulty_each_loop(w, block_difficulties, backend_ok, i) ==
    IF i > Len(block_difficulties) THEN [w |-> w, res |-> Ok(<<>>)]
    ELSE IF i = Len(block_difficulties) /\ ~backend_ok THEN [w |-> w, res |-> Err(<<"Io">>)]
    ELSE BlockStore_insert_difficulty_each_loop(
             [w EXCEPT !.difficulty =
                 Tree_apply_batch(@, Batch_insert(EmptyTree,
                                                  to_be_bytes(block_difficulties[i].height),
                                                  BlockDifficulty_encode(block_difficulties[i])))],
             block_difficulties, backend_ok, i + 1)

\* insert_difficulty writing each record on its own; the backend rejects the last.
BlockStore_insert_difficulty_each(w, block_difficulties, backend_ok) ==
    BlockStore_insert_difficulty_each_loop(w, block_difficulties, backend_ok, 1)

\* BlockStore::insert_difficulty
BlockStore_insert_difficulty(w, block_difficulties, backend_ok) ==
    LET batch == insert_batch_difficulty(block_difficulties)
    IN  IF backend_ok
        THEN [w |-> [w EXCEPT !.difficulty = Tree_apply_batch(@, batch)], res |-> Ok(<<>>)]
        ELSE [w |-> w, res |-> Err(<<"Io">>)]

\* ------------------------------------------------------- BlockStore: reads

\* BlockStore::contains
BlockStore_contains(w, blockhash) == Ok(Tree_contains_key(w.main, blockhash))

\* BlockStore::contains_order
BlockStore_contains_order(w, number) == Ok(Tree_contains_key(w.order, to_be_bytes(number)))

RECURSIVE BlockStore_get_loop(_, _, _, _, _)
BlockStore_get_loop(w, block_hashes, strict, i, ret) ==
    IF i > Len(block_hashes) THEN Ok(ret)
    ELSE LET found == Tree_get(w.main, block_hashes[i])
         IN  IF found # None
             THEN BlockStore_get_loop(w, block_hashes, strict, i + 1,
                      Append(ret, Some(Block_decode(found[1]))))
             ELSE IF strict THEN Err(<<"BlockNotFound", block_hashes[i]>>)
             ELSE BlockStore_get_loop(w, block_hashes, strict, i + 1, Append(ret, None))

\* BlockStore::get
BlockStore_get(w, block_hashes, strict) == BlockStore_get_loop(w, block_hashes, strict, 1, <<>>)

RECURSIVE BlockStore_get_order_loop(_, _, _, _, _)
BlockStore_get_order_loop(w, numbers, strict, i, ret) ==
    IF i > Len(numbers) THEN Ok(ret)
    ELSE LET found == Tree_get(w.order, to_be_bytes(numbers[i]))
         IN  IF found # None
             THEN BlockStore_get_order_loop(w, numbers, strict, i + 1,
                      Append(ret, Some(found[1])))
             ELSE IF strict THEN Err(<<"BlockNumberNotFound", numbers[i]>>)
             ELSE BlockStore_get_order_loop(w, numbers, strict, i + 1, Append(ret, None))

\* get_order without its strict check: a missing number is always a None.
BlockStore_get_order_lenient(w, numbers, strict) ==
    BlockStore_get_order_loop(w, numbers, FALSE, 1, <<>>)

\* BlockStore::get_order
BlockStore_get_order(w, numbers, strict) ==
    BlockStore_get_order_loop(w, numbers, strict, 1, <<>>)

RECURSIVE BlockStore_get_difficulty_loop(_, _, _, _, _)
BlockStore_get_difficulty_loop(w, heights, strict, i, ret) ==
    IF i > Len(heights) THEN Ok(ret)
    ELSE LET found == Tree_get(w.difficulty, to_be_bytes(heights[i]))
         IN  IF found # None
             THEN BlockStore_get_difficulty_loop(w, heights, strict, i + 1,
                      Append(ret, Some(BlockDifficulty_decode(found[1]))))
             ELSE IF strict THEN Err(<<"BlockDifficultyNotFound", heights[i]>>)
             ELSE BlockStore_get_difficulty_loop(w, heights, strict, i + 1, Append(ret, None))

RECURSIVE BlockStore_get_difficulty_skip_loop(_, _, _, _, _)
BlockStore_get_difficulty_skip_loop(w, heights, strict, i, ret) ==
    IF i > Len(heights) THEN Ok(ret)
    ELSE LET found == Tree_get(w.difficulty, to_be_bytes(heights[i]))
         IN  IF found # None
             THEN BlockStore_get_difficulty_skip_loop(w, heights, strict, i + 1,
                      Append(ret, Some(BlockDifficulty_decode(found[1]))))
             ELSE IF strict THEN Err(<<"BlockDifficultyNotFound", heights[i]>>)
             ELSE BlockStore_get_difficulty_skip_loop(w, heights, strict, i + 1, ret)

\* get_difficulty that pushes nothing for a missing height.
BlockStore_get_difficulty_skipping(w, heights, strict) ==
    BlockStore_get_difficulty_skip_loop(w, heights, strict, 1, <<>>)

\* BlockStore::get_difficulty
BlockStore_get_difficulty(w, heights, strict) ==
    BlockStore_get_difficulty_loop(w, heights, strict, 1, <<>>)

RECURSIVE BlockStore_get_after_loop(_, _, _, _, _)
BlockStore_get_after_loop(w, key, n, counter, ret) ==
    IF counter <= n
    THEN LET found == Tree_get_gt(w.order, to_be_bytes(key))
         IN  IF found # None
             THEN LET record == parse_u64_key_record(found[1])
                  IN  BlockStore_get_after_loop(w, record[1], n, counter + 1,
                          Append(ret, record[2]))
             ELSE Ok(ret)
    ELSE Ok(ret)

\* get_after with the loop condition counter < n: at most n records.
BlockStore_get_after_n(w, number, n) ==
    IF n = 0 THEN Ok(<<>>) ELSE BlockStore_get_after_loop(w, number, n - 1, 0, <<>>)

\* BlockStore::get_after
BlockStore_get_after(w, number, n) == BlockStore_get_after_loop(w, number, n, 0, <<>>)

\* BlockStore::get_first
BlockStore_get_first(w) ==
    LET found == Tree_first(w.order)
    IN  IF found = None THEN Err(<<"BlockNumberNotFound", 0>>)
        ELSE Ok(parse_u64_key_record(found[1]))

\* get_last reading the first record of the tree instead of the last.
BlockStore_get_last_from_first(w) == BlockStore_get_first(w)

\* BlockStore::get_last: unwraps the last record, and panics on an empty tree.
BlockStore_get_last(w) ==
    LET found == Tree_last(w.order)
    IN  IF found = None THEN [tag |-> "Panic", val |-> <<"unwrap on None">>]
        ELSE Ok(parse_u64_key_record(found[1]))

\* BlockStore::get_last_difficulty reading the first record of the tree.
BlockStore_get_last_difficulty_from_first(w) ==
    LET found == Tree_first(w.difficulty)
    IN  IF found = None THEN Ok(None)
        ELSE Ok(Some(BlockDifficulty_decode(found[1][2])))

\* BlockStore::get_last_difficulty
BlockStore_get_last_difficulty(w) ==
    LET found == Tree_last(w.difficulty)
    IN  IF found = None THEN Ok(None)
        ELSE Ok(Some(BlockDifficulty_decode(found[1][2])))

RECURSIVE get_last_n_difficulties_loop(_, _, _)
\* The loop of get_last_n_difficulties: each record is put at the front of last_n.
get_last_n_difficulties_loop(records, i, last_n) ==
    IF i > Len(records) THEN Ok(last_n)
    ELSE get_last_n_difficulties_loop(records, i + 1,
             <<BlockDifficulty_decode(records[i][2])>> \o last_n)

RECURSIVE get_last_n_difficulties_push_loop(_, _, _)
get_last_n_difficulties_push_loop(records, i, last_n) ==
    IF i > Len(records) THEN Ok(last_n)
    ELSE get_last_n_difficulties_push_loop(records, i + 1,
             Append(last_n, BlockDifficulty_decode(records[i][2])))

\* get_last_n_difficulties pushing each record at the back of last_n.
BlockStore_get_last_n_difficulties_pushed(w, n) ==
    get_last_n_difficulties_push_loop(Iter_take(Tree_iter_rev(w.difficulty), n), 1, <<>>)

\* BlockStore::get_last_n_difficulties
BlockStore_get_last_n_difficulties(w, n) ==
    get_last_n_difficulties_loop(Iter_take(Tree_iter_rev(w.difficulty), n), 1, <<>>)

\* len counting the records of the blocks tree.
BlockStore_len_main(w) == Tree_len(w.main)

\* BlockStore::len
BlockStore_len(w) == Tree_len(w.order)

\* BlockStore::is_empty
BlockStore_is_empty(w) == Tree_len(w.order) = 0

\* ------------------------------------------------- overlay: SledDbOverlay

\* SledDbOverlay::insert: the write goes to the overlay's buffer of the tree.
Overlay_insert(w, tree_name, key, value) ==
    [w EXCEPT !.ov.cache[tree_name] = Batch_insert(@, key, value)]

\* SledDbOverlay::get: the buffer of the tree first, the tree itself otherwise.
Overlay_get(w, tree_name, key) ==
    IF key \in DOMAIN w.ov.cache[tree_name]
    THEN Some(w.ov.cache[tree_name][key])
    ELSE Tree_get(StoreTree(w, tree_name), key)

\* Mutant: a failed apply drops the buffers.
Overlay_apply_drops_on_error(w, backend_ok) ==
    IF backend_ok
    THEN [w |-> [main |-> Tree_apply_batch(w.main, w.ov.cache[SLED_BLOCK_TREE]),
                 order |-> Tree_apply_batch(w.order, w.ov.cache[SLED_BLOCK_ORDER_TREE]),
                 difficulty |->
                     Tree_apply_batch(w.difficulty, w.ov.cache[SLED_BLOCK_DIFFICULTY_TREE]),
                 ov |-> [open |-> FALSE, cache |-> NoCache]],
          res |-> Ok(<<>>)]
    ELSE [w |-> [w EXCEPT !.ov.cache = NoCache], res |-> Err(<<"Io">>)]

\* SledDbOverlay::apply (commit): one atomic apply of the three buffers, or a
\* backend error that applies nothing and keeps the buffers.
Overlay_apply(w, backend_ok) ==
    IF backend_ok
    THEN [w |-> [main |-> Tree_apply_batch(w.main, w.ov.cache[SLED_BLOCK_TREE]),
                 order |-> Tree_apply_batch(w.order, w.ov.cache[SLED_BLOCK_ORDER_TREE]),
                 difficulty |->
                     Tree_apply_batch(w.difficulty, w.ov.cache[SLED_BLOCK_DIFFICULTY_TREE]),
                 ov |-> [open |-> FALSE, cache |-> NoCache]],
          res |-> Ok(<<>>)]
    ELSE [w |-> w, res |-> Err(<<"Io">>)]

\* Discard, or drop, of the overlay: the buffers are released, the trees untouched.
Overlay_release(w) == [w EXCEPT !.ov = [open |-> FALSE, cache |-> NoCache]]

\* The view of a tree through the overlay: its buffer over the tree itself.
Overlay_merged(w, tree_name) == w.ov.cache[tree_name] @@ StoreTree(w, tree_name)

\* SledDbOverlay::last: the record of the greatest key of the merged view.
Overlay_last(w, tree_name) == Tree_last(Overlay_merged(w, tree_name))

\* SledDbOverlay::is_empty: the merged view holds no record.
Overlay_is_empty(w, tree_name) == DOMAIN Overlay_merged(w, tree_name) = {}

\* ------------------------------------------------------ BlockStoreOverlay

\* BlockStoreOverlay::new: the three trees are opened in the overlay.
BlockStoreOverlay_new(w) == [w EXCEPT !.ov = [open |-> TRUE, cache |-> NoCache]]

RECURSIVE BlockStoreOverlay_insert_loop(_, _, _, _)
BlockStoreOverlay_insert_loop(w, blocks, i, ret) ==
    IF i > Len(blocks) THEN [w |-> w, res |-> Ok(ret)]
    ELSE LET blockhash == Block_hash(blocks[i])
         IN  BlockStoreOverlay_insert_loop(
                 Overlay_insert(w, SLED_BLOCK_TREE, blockhash, Block_encode(blocks[i])),
                 blocks, i + 1, Append(ret, blockhash))

\* Mutant: insert also writes the batch to the store's main tree.
BlockStoreOverlay_insert_writethrough(w, blocks) ==
    LET r == BlockStoreOverlay_insert_loop(w, blocks, 1, <<>>)
    IN  [r EXCEPT !.w.main = Tree_apply_batch(@, insert_batch(blocks).batch)]

\* BlockStoreOverlay::insert
BlockStoreOverlay_insert(w, blocks) == BlockStoreOverlay_insert_loop(w, blocks, 1, <<>>)

RECURSIVE BlockStoreOverlay_insert_order_loop(_, _, _, _)
BlockStoreOverlay_insert_order_loop(w, numbers, hashes, i) ==
    IF i > Len(numbers) THEN [w |-> w, res |-> Ok(<<>>)]
    ELSE IF i > Len(hashes) THEN [w |-> w, res |-> Panic]
    ELSE BlockStoreOverlay_insert_order_loop(
             Overlay_insert(w, SLED_BLOCK_ORDER_TREE, to_be_bytes(numbers[i]), hashes[i]),
             numbers, hashes, i + 1)

\* Mutant: insert_order without the check of the lengths.
BlockStoreOverlay_insert_order_unchecked(w, numbers, hashes) ==
    BlockStoreOverlay_insert_order_loop(w, numbers, hashes, 1)

\* Mutant: insert_order pairs every order number with hashes[0].
BlockStoreOverlay_insert_order_first_hash(w, numbers, hashes) ==
    IF Len(numbers) # Len(hashes)
    THEN [w |-> w, res |-> Err(<<"InvalidInputLengths">>)]
    ELSE BlockStoreOverlay_insert_order_loop(w, numbers,
             [i \in 1..Len(hashes) |-> hashes[1]], 1)

\* Mutant: insert_order also writes the batch to the store's order tree.
BlockStoreOverlay_insert_order_writethrough(w, numbers, hashes) ==
    IF Len(numbers) # Len(hashes)
    THEN [w |-> w, res |-> Err(<<"InvalidInputLengths">>)]
    ELSE LET r == BlockStoreOverlay_insert_order_loop(w, numbers, hashes, 1)
         IN  [r EXCEPT !.w.order =
                 Tree_apply_batch(@, insert_batch_order(numbers, hashes).batch)]

\* BlockStoreOverlay::insert_order
BlockStoreOverlay_insert_order(w, numbers, hashes) ==
    IF Len(numbers) # Len(hashes)
    THEN [w |-> w, res |-> Err(<<"InvalidInputLengths">>)]
    ELSE BlockStoreOverlay_insert_order_loop(w, numbers, hashes, 1)

RECURSIVE BlockStoreOverlay_insert_difficulty_loop(_, _, _)
BlockStoreOverlay_insert_difficulty_loop(w, block_difficulties, i) ==
    IF i > Len(block_difficulties) THEN [w |-> w, res |-> Ok(<<>>)]
    ELSE BlockStoreOverlay_insert_difficulty_loop(
             Overlay_insert(w, SLED_BLOCK_DIFFICULTY_TREE,
                            to_be_bytes(block_difficulties[i].height),
                            BlockDifficulty_encode(block_difficulties[i])),
             block_difficulties, i + 1)

\* Mutant: insert_difficulty also writes the batch to the store's difficulty tree.
BlockStoreOverlay_insert_difficulty_writethrough(w, block_difficulties) ==
    LET r == BlockStoreOverlay_insert_difficulty_loop(w, block_difficulties, 1)
    IN  [r EXCEPT !.w.difficulty =
            Tree_apply_batch(@, insert_batch_difficulty(block_difficulties))]

RECURSIVE BlockStoreOverlay_insert_difficulty_le_loop(_, _, _)
BlockStoreOverlay_insert_difficulty_le_loop(w, block_difficulties, i) ==
    IF i > Len(block_difficulties) THEN [w |-> w, res |-> Ok(<<>>)]
    ELSE BlockStoreOverlay_insert_difficulty_le_loop(
             Overlay_insert(w, SLED_BLOCK_DIFFICULTY_TREE,
                            to_le_bytes(block_difficulties[i].height),
                            BlockDifficulty_encode(block_difficulties[i])),
             block_difficulties, i + 1)

\* insert_difficulty keying each record by height.to_le_bytes().
BlockStoreOverlay_insert_difficulty_le_keys(w, block_difficulties) ==
    BlockStoreOverlay_insert_difficulty_le_loop(w, block_difficulties, 1)

\* BlockStoreOverlay::insert_difficulty
BlockStoreOverlay_insert_difficulty(w, block_difficulties) ==
    BlockStoreOverlay_insert_difficulty_loop(w, block_difficulties, 1)

RECURSIVE BlockStoreOverlay_get_loop(_, _, _, _, _)
BlockStoreOverlay_get_loop(w, block_hashes, strict, i, ret) ==
    IF i > Len(block_hashes) THEN Ok(ret)
    ELSE LET found == Overlay_get(w, SLED_BLOCK_TREE, block_hashes[i])
         IN  IF found # None
             THEN BlockStoreOverlay_get_loop(w, block_hashes, strict, i + 1,
                      Append(ret, Some(Block_decode(found[1]))))
             ELSE IF strict THEN Err(<<"BlockNotFound", block_hashes[i]>>)
             ELSE BlockStoreOverlay_get_loop(w, block_hashes, strict, i + 1,
                      Append(ret, None))

\* Mutant: get reads the store's main tree, not the overlay.
BlockStoreOverlay_get_store(w, block_hashes, strict) ==
    BlockStore_get(w, block_hashes, strict)

\* BlockStoreOverlay::get
BlockStoreOverlay_get(w, block_hashes, strict) ==
    BlockStoreOverlay_get_loop(w, block_hashes, strict, 1, <<>>)

RECURSIVE BlockStoreOverlay_get_order_loop(_, _, _, _, _)
BlockStoreOverlay_get_order_loop(w, numbers, strict, i, ret) ==
    IF i > Len(numbers) THEN Ok(ret)
    ELSE LET found == Overlay_get(w, SLED_BLOCK_ORDER_TREE, to_be_bytes(numbers[i]))
         IN  IF found # None
             THEN BlockStoreOverlay_get_order_loop(w, numbers, strict, i + 1,
                      Append(ret, Some(found[1])))
             ELSE IF strict THEN Err(<<"BlockNumberNotFound", numbers[i]>>)
             ELSE BlockStoreOverlay_get_order_loop(w, numbers, strict, i + 1,
                      Append(ret, None))

\* get_order asking the store's order tree first, and the overlay for what the store
\* does not hold.
BlockStoreOverlay_get_order_store_first(w, numbers, strict) ==
    LET stored == BlockStore_get_order(w, numbers, FALSE).val
        merged == BlockStoreOverlay_get_order_loop(w, numbers, FALSE, 1, <<>>).val
        ret == [i \in 1..Len(numbers) |-> IF stored[i] # None THEN stored[i] ELSE merged[i]]
    IN  IF strict /\ \E i \in 1..Len(numbers) : ret[i] = None
        THEN Err(<<"BlockNumberNotFound",
                   numbers[CHOOSE i \in 1..Len(numbers) :
                               ret[i] = None /\ \A j \in 1..(i - 1) : ret[j] # None]>>)
        ELSE Ok(ret)

\* BlockStoreOverlay::get_order
BlockStoreOverlay_get_order(w, numbers, strict) ==
    BlockStoreOverlay_get_order_loop(w, numbers, strict, 1, <<>>)

\* get_last answering from the store's order tree alone.
BlockStoreOverlay_get_last_store(w) ==
    LET found == Tree_last(w.order)
    IN  IF found = None THEN Err(<<"BlockNumberNotFound", 0>>)
        ELSE Ok(parse_u64_key_record(found[1]))

\* BlockStoreOverlay::get_last
BlockStoreOverlay_get_last(w) ==
    LET found == Overlay_last(w, SLED_BLOCK_ORDER_TREE)
    IN  IF found = None THEN Err(<<"BlockNumberNotFound", 0>>)
        ELSE Ok(parse_u64_key_record(found[1]))

\* BlockStoreOverlay::is_empty
BlockStoreOverlay_is_empty(w) == Ok(Overlay_is_empty(w, SLED_BLOCK_ORDER_TREE))

\* ------------------------------------------------------------------ actions

\* The three trees of a world.
Trees(w) == [main |-> w.main, order |-> w.order, difficulty |-> w.difficulty]

\* The world whose trees are those of the history variable base.
BaseWorld == [main |-> base.main, order |-> base.order, difficulty |-> base.difficulty,
              ov |-> ov]

\* The next state is world w.
Becomes(w) ==
    /\ main' = w.main
    /\ order' = w.order
    /\ difficulty' = w.difficulty
    /\ ov' = w.ov

Call(op, arg, res) == [op |-> op, arg |-> arg, res |-> res]

\* The value given last for each key, of a call that gives vals[i] for keys[i].
LastGiven(keys, vals) ==
    [k \in Range(keys) |->
        vals[CHOOSE i \in 1..Len(keys) :
                 keys[i] = k /\ \A j \in 1..Len(keys) : keys[j] = k => j <= i]]

\* The DAO contract before any proposal: an empty proposal database, not looked up
\* by any call, and no proposal executed.
NoDao == [proposals |-> <<>>, db_read |-> FALSE, executed |-> {}]

\* A thread outside every call on the overlay.
Idle == [op |-> "none", args |-> <<>>, i |-> 0, ret |-> <<>>]

\* A thread inside a call: past self.0.lock(), at entry i of its loop.
Running(op, args) == [op |-> op, args |-> args, i |-> 1, ret |-> <<>>]

\* The trees of the overlay that hold a buffered write.
Buffered == {t \in TreeNames : DOMAIN ov.cache[t] # {}}

Init ==
    /\ main = EmptyTree
    /\ order = EmptyTree
    /\ difficulty = EmptyTree
    /\ ov = [open |-> FALSE, cache |-> NoCache]
    /\ last = Call("new", <<>>, Ok(<<>>))
    /\ ovw = NoCache
    /\ base = [main |-> EmptyTree, order |-> EmptyTree, difficulty |-> EmptyTree]
    /\ threads = [mutex |-> "free", writer |-> Idle, reader |-> Idle]
    /\ dao = NoDao

\* A thread calls BlockStore::insert with at most maxlen blocks of the set bs.
DirectInsert(bs, maxlen) ==
    \E blocks \in SeqsUpTo(bs, maxlen) :
        LET r == BlockStore_insert(World, blocks, TRUE)
        IN  /\ Becomes(r.w)
            /\ last' = Call("insert", <<>>, r.res)
            /\ base' = Trees(BlockStore_insert(BaseWorld, blocks, TRUE).w)
            /\ UNCHANGED <<ovw, threads, dao>>

\* A thread calls BlockStore::insert_order with order numbers of the set hs.
DirectInsertOrder(hs, maxlen) ==
    \E numbers \in SeqsUpTo(hs, maxlen), hashes \in SeqsUpTo(Hashes, maxlen) :
        LET r == BlockStore_insert_order(World, numbers, hashes, TRUE)
        IN  /\ Becomes(r.w)
            /\ last' = Call("insert_order", <<Len(numbers) < Len(hashes), Len(numbers) > Len(hashes)>>, r.res)
            /\ base' = Trees(BlockStore_insert_order(BaseWorld, numbers, hashes, TRUE).w)
            /\ UNCHANGED <<ovw, threads, dao>>

\* A thread calls BlockStore::insert_difficulty with records of the set ds.
DirectInsertDifficulty(ds, maxlen) ==
    \E block_difficulties \in SeqsUpTo(ds, maxlen) :
        LET r == BlockStore_insert_difficulty(World, block_difficulties, TRUE)
        IN  /\ Becomes(r.w)
            /\ last' = Call("insert_difficulty", <<>>, r.res)
            /\ base' = Trees(BlockStore_insert_difficulty(BaseWorld, block_difficulties,
                                                          TRUE).w)
            /\ UNCHANGED <<ovw, threads, dao>>

\* A caller opens an overlay over the store.
OverlayNew ==
    /\ ~ov.open
    /\ Becomes(BlockStoreOverlay_new(World))
    /\ last' = Call("overlay_new", <<>>, Ok(<<>>))
    /\ ovw' = NoCache
    /\ UNCHANGED <<base, threads, dao>>

\* BlockStoreOverlay::insert on the open overlay, with blocks of the set bs.
OverlayInsert(bs) ==
    /\ ov.open
    /\ \E blocks \in SeqsUpTo(bs, MaxLen) :
        LET r == BlockStoreOverlay_insert(World, blocks)
        IN  /\ Becomes(r.w)
            /\ last' = Call("overlay_insert", <<>>, r.res)
            /\ ovw' = [ovw EXCEPT ![SLED_BLOCK_TREE] =
                          LastGiven([i \in 1..Len(blocks) |-> Block_hash(blocks[i])], blocks)
                              @@ @]
            /\ UNCHANGED <<base, threads, dao>>

\* BlockStoreOverlay::insert_order on the open overlay, with order numbers of hs.
OverlayInsertOrder(hs) ==
    /\ ov.open
    /\ \E numbers \in SeqsUpTo(hs, MaxLen), hashes \in SeqsUpTo(Hashes, MaxLen) :
        LET r == BlockStoreOverlay_insert_order(World, numbers, hashes)
        IN  /\ Becomes(r.w)
            /\ last' = Call("overlay_insert_order", <<Len(numbers) < Len(hashes), Len(numbers) > Len(hashes)>>, r.res)
            /\ ovw' = IF Len(numbers) = Len(hashes)
                      THEN [ovw EXCEPT ![SLED_BLOCK_ORDER_TREE] =
                               LastGiven(numbers, hashes) @@ @]
                      ELSE ovw
            /\ UNCHANGED <<base, threads, dao>>

\* BlockStoreOverlay::insert_difficulty on the open overlay, with records of ds.
OverlayInsertDifficulty(ds) ==
    /\ ov.open
    /\ \E block_difficulties \in SeqsUpTo(ds, MaxLen) :
        LET r == BlockStoreOverlay_insert_difficulty(World, block_difficulties)
        IN  /\ Becomes(r.w)
            /\ last' = Call("overlay_insert_difficulty", <<>>, r.res)
            /\ ovw' = [ovw EXCEPT ![SLED_BLOCK_DIFFICULTY_TREE] =
                          LastGiven([i \in 1..Len(block_difficulties) |->
                                        block_difficulties[i].height],
                                    block_difficulties) @@ @]
            /\ UNCHANGED <<base, threads, dao>>

\* BlockStoreOverlay::get on the open overlay.
OverlayGet ==
    /\ ov.open
    /\ \E block_hashes \in SeqsUpTo(Hashes, MaxGetLen), strict \in BOOLEAN :
        /\ last' = Call("overlay_get", <<block_hashes, strict>>,
                        BlockStoreOverlay_get(World, block_hashes, strict))
        /\ UNCHANGED <<main, order, difficulty, ov, ovw, base, threads, dao>>

\* BlockStoreOverlay::get_order on the open overlay.
OverlayGetOrder ==
    /\ ov.open
    /\ \E numbers \in SeqsUpTo(Heights, MaxGetLen), strict \in BOOLEAN :
        /\ last' = Call("overlay_get_order", <<numbers, strict>>,
                        BlockStoreOverlay_get_order(World, numbers, strict))
        /\ UNCHANGED <<main, order, difficulty, ov, ovw, base, threads, dao>>

\* The caller commits the open overlay.
OverlayCommit ==
    /\ ov.open
    /\ \E backend_ok \in BOOLEAN :
        LET r == Overlay_apply(World, backend_ok)
        IN  /\ Becomes(r.w)
            /\ last' = Call("overlay_commit", Buffered, r.res)
            /\ ovw' = IF r.res.tag = "Ok" THEN NoCache ELSE ovw
            /\ base' = IF r.res.tag = "Ok" THEN Trees(r.w) ELSE base
            /\ UNCHANGED <<threads, dao>>

\* The caller discards the open overlay.
OverlayDiscard ==
    /\ ov.open
    /\ Becomes(Overlay_release(World))
    /\ last' = Call("overlay_discard", Buffered, Ok(<<>>))
    /\ ovw' = NoCache
    /\ UNCHANGED <<base, threads, dao>>

\* The caller drops the open overlay without commit or discard.
OverlayDrop ==
    /\ ov.open
    /\ Becomes(Overlay_release(World))
    /\ last' = Call("overlay_drop", Buffered, Ok(<<>>))
    /\ ovw' = NoCache
    /\ UNCHANGED <<base, threads, dao>>

\* The commit protocol: direct writers and one overlay at a time over the three
\* trees, committed, discarded or dropped.
Next ==
    \/ DirectInsert(GenesisBlocks, 1)
    \/ DirectInsertOrder(GenesisHeights, MaxLen)
    \/ DirectInsertDifficulty(GenesisDifficulties, 1)
    \/ OverlayNew
    \/ OverlayInsert(GenesisBlocks)
    \/ OverlayInsertOrder(GenesisHeights)
    \/ OverlayInsertDifficulty(GenesisDifficulties)
    \/ OverlayCommit
    \/ OverlayDiscard
    \/ OverlayDrop

Spec == Init /\ [][Next]_vars

NextOverlay ==
    \/ DirectInsert(Blocks, 1)
    \/ DirectInsertOrder(GenesisHeights, 1)
    \/ OverlayNew
    \/ OverlayInsert(Blocks)
    \/ OverlayInsertOrder(GenesisHeights)
    \/ OverlayGet
    \/ OverlayGetOrder

\* The reads through an open overlay, over the blocks and order trees.
SpecOverlay == Init /\ [][NextOverlay]_vars

\* BlockStore::get_after from an order number of hs, for a count of ns.
GetAfterIn(hs, ns) ==
    \E number \in hs, n \in ns :
        /\ last' = Call("get_after", <<number, n>>, BlockStore_get_after(World, number, n))
        /\ UNCHANGED <<main, order, difficulty, ov, ovw, base, threads, dao>>

\* BlockStore::get_after on the order tree.
GetAfter ==
    \E number \in OrderHeights, n \in 0..MaxN :
        /\ last' = Call("get_after", <<number, n>>, BlockStore_get_after(World, number, n))
        /\ UNCHANGED <<main, order, difficulty, ov, ovw, base, threads, dao>>

NextOrder ==
    \/ DirectInsertOrder(OrderHeights, 1)
    \/ GetAfter

\* The order tree alone, its writes and its cursor reads.
SpecOrder == Init /\ [][NextOrder]_vars

\* get_first taking the first record out of the order tree, as a pop of the least key
\* would.
GetFirst_popping ==
    /\ last' = Call("get_first", <<>>, BlockStore_get_first(World))
    /\ order' = IF DOMAIN order = {} THEN order
                ELSE [k \in DOMAIN order \ {LeastKey(DOMAIN order)} |-> order[k]]
    /\ UNCHANGED <<main, difficulty, ov, ovw, base, threads, dao>>

\* BlockStore::get_first on the order tree.
GetFirst ==
    /\ last' = Call("get_first", <<>>, BlockStore_get_first(World))
    /\ UNCHANGED <<main, order, difficulty, ov, ovw, base, threads, dao>>

\* BlockStore::get_last on the order tree.
GetLast ==
    /\ last' = Call("get_last", <<>>, BlockStore_get_last(World))
    /\ UNCHANGED <<main, order, difficulty, ov, ovw, base, threads, dao>>

NextCursor ==
    \/ DirectInsertOrder(OrderHeights, MaxLen)
    \/ GetFirst
    \/ GetLast

\* The order tree written in slices, in any order of heights, and its extrema.
SpecCursor == Init /\ [][NextCursor]_vars

\* BlockStore::get_last_difficulty on the difficulty tree.
GetLastDifficulty ==
    /\ last' = Call("get_last_difficulty", <<>>, BlockStore_get_last_difficulty(World))
    /\ UNCHANGED <<main, order, difficulty, ov, ovw, base, threads, dao>>

\* Heights whose u64 keys differ in more than the lowest byte.
KeyHeights == {1, 255, 256, 65536}

\* One difficulty record per height of KeyHeights.
KeyDifficulties ==
    {BlockDifficulty_new(h, 0, 0, 0, BlockRanks_new(0, 0, 0, 0)) : h \in KeyHeights}

NextKeys ==
    \/ DirectInsertOrder(KeyHeights, 1)
    \/ DirectInsertDifficulty(KeyDifficulties, 1)
    \/ GetFirst
    \/ GetLast
    \/ GetAfterIn(KeyHeights \cup {0}, {0})
    \/ GetLastDifficulty

\* The order and difficulty trees under heights of several bytes, and their cursors.
SpecKeys == Init /\ [][NextKeys]_vars

\* BlockStore::get for at most MaxLen hashes.
Get ==
    \E block_hashes \in SeqsUpTo(Hashes, MaxLen), strict \in BOOLEAN :
        /\ last' = Call("get", <<block_hashes, strict>>,
                        BlockStore_get(World, block_hashes, strict))
        /\ UNCHANGED <<main, order, difficulty, ov, ovw, base, threads, dao>>

\* BlockStore::get_order for at most MaxLen order numbers.
GetOrder ==
    \E numbers \in SeqsUpTo(Heights, MaxLen), strict \in BOOLEAN :
        /\ last' = Call("get_order", <<numbers, strict>>,
                        BlockStore_get_order(World, numbers, strict))
        /\ UNCHANGED <<main, order, difficulty, ov, ovw, base, threads, dao>>

\* BlockStore::get_difficulty for at most MaxLen heights.
GetDifficulty ==
    \E heights \in SeqsUpTo(Heights, MaxLen), strict \in BOOLEAN :
        /\ last' = Call("get_difficulty", <<heights, strict>>,
                        BlockStore_get_difficulty(World, heights, strict))
        /\ UNCHANGED <<main, order, difficulty, ov, ovw, base, threads, dao>>

\* The records given to the store whose lookups are checked: one block per header
\* hash, one difficulty record per height.
LookupBlocks == {Block_new(1, <<1>>, 0), Block_new(2, <<>>, 0)}

LookupDifficulties == {d \in Difficulties : d.difficulty = d.height}

NextGet ==
    \/ DirectInsert(LookupBlocks, 1)
    \/ DirectInsertOrder(Heights, 1)
    \/ DirectInsertDifficulty(LookupDifficulties, 1)
    \/ Get
    \/ GetOrder
    \/ GetDifficulty

\* The three trees and their point lookups, strict and not.
SpecGet == Init /\ [][NextGet]_vars

\* The blocks given to the blocks tree: two of header hash 1 that differ in their
\* signature, one of header hash 2.
SignedBlocks == {Block_new(1, <<1>>, 0), Block_new(1, <<1>>, 1), Block_new(2, <<>>, 0)}

\* BlockStore::insert of at most MaxLen blocks, the slice kept in last.
Insert ==
    \E blocks \in SeqsUpTo(SignedBlocks, MaxLen) :
        LET r == BlockStore_insert(World, blocks, TRUE)
        IN  /\ Becomes(r.w)
            /\ last' = Call("insert", <<blocks>>, r.res)
            /\ base' = Trees(BlockStore_insert(BaseWorld, blocks, TRUE).w)
            /\ UNCHANGED <<ovw, threads, dao>>

\* BlockStore::get, strict, of the hashes the insert before it returned.
GetInserted ==
    /\ last.op = "insert"
    /\ last.res.tag = "Ok"
    /\ last' = Call("get_inserted", last.arg, BlockStore_get(World, last.res.val, TRUE))
    /\ UNCHANGED <<main, order, difficulty, ov, ovw, base, threads, dao>>

NextBlocks ==
    \/ Insert
    \/ GetInserted
    \/ Get

\* The blocks tree: slices inserted, and read back by the hashes insert returned.
SpecBlocks == Init /\ [][NextBlocks]_vars

\* BlockStore::get_last_n_difficulties for an n up to one above MaxN.
GetLastNDifficulties ==
    \E n \in 0..(MaxN + 1) :
        /\ last' = Call("get_last_n_difficulties", <<n>>,
                        BlockStore_get_last_n_difficulties(World, n))
        /\ UNCHANGED <<main, order, difficulty, ov, ovw, base, threads, dao>>

\* The difficulty records given to the difficulty tree: two per height of
\* OrderHeights.
HeightDifficulties ==
    {BlockDifficulty_new(h, 0, d, d, BlockRanks_new(0, 0, 0, 0)) :
        h \in OrderHeights, d \in {0, 1}}

NextDifficulty ==
    \/ DirectInsertDifficulty(HeightDifficulties, 1)
    \/ GetLastDifficulty
    \/ GetLastNDifficulties

\* The difficulty tree, its writes and its reads from the end.
SpecDifficulty == Init /\ [][NextDifficulty]_vars

\* The block of header hash h that a chain extension stores.
ChainBlock(h) == Block_new(h, <<>>, 0)

\* The difficulty record of height n that a chain extension stores.
ChainDifficulty(n) == BlockDifficulty_new(n, 0, 1, n + 1, BlockRanks_new(0, 0, 0, 0))

\* The height the next extension adds: the number of heights the store holds.
ChainNext == BlockStore_len(World)

\* The hashes the open extension may still use: the one it has buffered, or any.
ChainHashes ==
    {h \in Hashes :
        /\ \A k \in DOMAIN ov.cache[SLED_BLOCK_TREE] : k = h
        /\ \A k \in DOMAIN ov.cache[SLED_BLOCK_ORDER_TREE] :
               ov.cache[SLED_BLOCK_ORDER_TREE][k] = h}

\* The extension's BlockStoreOverlay::insert of its block.
ChainInsert ==
    /\ ov.open
    /\ ChainNext <= MaxOrderHeight
    /\ DOMAIN ov.cache[SLED_BLOCK_TREE] = {}
    /\ \E h \in ChainHashes :
        LET r == BlockStoreOverlay_insert(World, <<ChainBlock(h)>>)
        IN  /\ Becomes(r.w)
            /\ last' = Call("overlay_insert", <<>>, r.res)
            /\ ovw' = [ovw EXCEPT ![SLED_BLOCK_TREE] = (h :> ChainBlock(h)) @@ @]
            /\ UNCHANGED <<base, threads, dao>>

\* The extension's BlockStoreOverlay::insert_order of the next height and its hash.
ChainInsertOrder ==
    /\ ov.open
    /\ ChainNext <= MaxOrderHeight
    /\ DOMAIN ov.cache[SLED_BLOCK_ORDER_TREE] = {}
    /\ \E h \in ChainHashes :
        LET r == BlockStoreOverlay_insert_order(World, <<ChainNext>>, <<h>>)
        IN  /\ Becomes(r.w)
            /\ last' = Call("overlay_insert_order", <<FALSE, FALSE>>, r.res)
            /\ ovw' = [ovw EXCEPT ![SLED_BLOCK_ORDER_TREE] = (ChainNext :> h) @@ @]
            /\ UNCHANGED <<base, threads, dao>>

\* The extension's BlockStoreOverlay::insert_difficulty of the next height's record.
ChainInsertDifficulty ==
    /\ ov.open
    /\ ChainNext <= MaxOrderHeight
    /\ DOMAIN ov.cache[SLED_BLOCK_DIFFICULTY_TREE] = {}
    /\ LET r == BlockStoreOverlay_insert_difficulty(World, <<ChainDifficulty(ChainNext)>>)
       IN  /\ Becomes(r.w)
           /\ last' = Call("overlay_insert_difficulty", <<>>, r.res)
           /\ ovw' = [ovw EXCEPT ![SLED_BLOCK_DIFFICULTY_TREE] =
                          (ChainNext :> ChainDifficulty(ChainNext)) @@ @]
           /\ UNCHANGED <<base, threads, dao>>

\* The extension commits once it has buffered its three writes.
ChainCommit ==
    /\ Buffered = TreeNames
    /\ OverlayCommit

NextChain ==
    \/ OverlayNew
    \/ ChainInsert
    \/ ChainInsertOrder
    \/ ChainInsertDifficulty
    \/ ChainCommit
    \/ OverlayDiscard
    \/ OverlayDrop

\* A store changed only by overlay commits that each add the next height.
SpecChain == Init /\ [][NextChain]_vars

\* What a caller adds at a height: its difficulty, target rank and hash rank.
CumulativeSteps == {<<1, 0, 2>>, <<255, 255, 0>>, <<65535, 1, 255>>}

\* The caller reads the last difficulty record, builds the record of the next height
\* with each cumulative field the last one's plus its own value, and stores it with
\* BlockStore::insert_difficulty.
CumulativeAppend ==
    LET found == BlockStore_get_last_difficulty(World).val
        genesis == found = None
        height == IF genesis THEN 0 ELSE found[1].height + 1
        cummulative == IF genesis THEN 0 ELSE found[1].cummulative_difficulty
        targets == IF genesis THEN 0 ELSE found[1].ranks.targets_rank
        hashes == IF genesis THEN 0 ELSE found[1].ranks.hashes_rank
    IN  /\ height <= MaxOrderHeight
        /\ \E s \in CumulativeSteps :
            LET record == BlockDifficulty_new(height, 0, s[1], cummulative + s[1],
                              BlockRanks_new(s[2], targets + s[2], s[3], hashes + s[3]))
                r == BlockStore_insert_difficulty(World, <<record>>, TRUE)
            IN  /\ Becomes(r.w)
                /\ last' = Call("insert_difficulty", <<>>, r.res)
                /\ base' = Trees(BlockStore_insert_difficulty(BaseWorld, <<record>>,
                                                              TRUE).w)
                /\ UNCHANGED <<ovw, threads, dao>>

NextCumulative ==
    \/ CumulativeAppend
    \/ GetLastDifficulty
    \/ GetLastNDifficulties

\* A difficulty tree grown height by height by a caller that keeps running sums.
SpecCumulative == Init /\ [][NextCumulative]_vars

\* The full blocks a node holds: two headers, each without and with a transaction.
BlockInfos == {BlockInfo_new(h, txs, 0) : h \in {1, 2}, txs \in {<<>>, <<1>>}}

\* Their on-disk forms.
InfoBlocks == {Block_from_block_info(i) : i \in BlockInfos}

NextContent ==
    \/ DirectInsert(InfoBlocks, 1)
    \/ OverlayNew
    \/ OverlayInsert(InfoBlocks)
    \/ OverlayCommit
    \/ OverlayDiscard

\* The blocks tree written, directly and through an overlay, with the on-disk forms
\* of full blocks.
SpecContent == Init /\ [][NextContent]_vars

\* The ranks of the codec's inputs: all zero, four different values, and values of
\* one and two bytes.
CodecRanks ==
    {BlockRanks_new(0, 0, 0, 0), BlockRanks_new(1, 2, 3, 4), BlockRanks_new(256, 0, 255, 1)}

\* The difficulty records of the codec's inputs.
CodecDifficulties ==
    {BlockDifficulty_new(h, t, d, c, r) :
        h \in {0, 256}, t \in {0, 1}, d \in {0, 255, 256}, c \in {0, 65536}, r \in CodecRanks}

\* The records of them that are stored: per height, one of zeros and one of several
\* bytes.
CodecStored ==
    {d \in CodecDifficulties :
        \/ d.timestamp = 0 /\ d.difficulty = 0 /\ d.cummulative_difficulty = 0
              /\ d.ranks = BlockRanks_new(0, 0, 0, 0)
        \/ d.timestamp = 1 /\ d.difficulty = 256 /\ d.cummulative_difficulty = 65536
              /\ d.ranks = BlockRanks_new(1, 2, 3, 4)}

\* The order entries of the codec's inputs: a height and a hash.
CodecOrderEntries == (KeyHeights \cup {0}) \X Hashes

\* An order entry as its record in the order tree: the key and the value.
OrderEntry_encode(entry) == <<to_be_bytes(entry[1]), entry[2]>>

NextCodec ==
    \/ DirectInsert(Blocks, 1)
    \/ DirectInsertOrder(GenesisHeights, 1)
    \/ DirectInsertDifficulty(CodecStored, 1)
    \/ Get
    \/ GetFirst
    \/ GetLastDifficulty

\* Values encoded into the three trees and decoded by the reads.
SpecCodec == Init /\ [][NextCodec]_vars

\* A writer thread calls BlockStore::insert; sled applies the batch or rejects it.
WriteInsert(bs) ==
    \E blocks \in SeqsUpTo(bs, MaxLen), backend_ok \in BOOLEAN :
        LET r == BlockStore_insert(World, blocks, backend_ok)
        IN  /\ Becomes(r.w)
            /\ last' = Call("insert", <<blocks>>, r.res)
            /\ base' = Trees(BlockStore_insert(BaseWorld, blocks, backend_ok).w)
            /\ UNCHANGED <<ovw, threads, dao>>

\* A writer thread calls BlockStore::insert_order.
WriteInsertOrder(hs, hashset) ==
    \E numbers \in SeqsUpTo(hs, MaxLen), hashes \in SeqsUpTo(hashset, MaxLen),
       backend_ok \in BOOLEAN :
        LET r == BlockStore_insert_order(World, numbers, hashes, backend_ok)
        IN  /\ Becomes(r.w)
            /\ last' = Call("insert_order", <<numbers, hashes>>, r.res)
            /\ base' = Trees(BlockStore_insert_order(BaseWorld, numbers, hashes,
                                                     backend_ok).w)
            /\ UNCHANGED <<ovw, threads, dao>>

\* A writer thread calls BlockStore::insert_difficulty.
WriteInsertDifficulty(ds) ==
    \E block_difficulties \in SeqsUpTo(ds, MaxLen), backend_ok \in BOOLEAN :
        LET r == BlockStore_insert_difficulty(World, block_difficulties, backend_ok)
        IN  /\ Becomes(r.w)
            /\ last' = Call("insert_difficulty", <<block_difficulties>>, r.res)
            /\ base' = Trees(BlockStore_insert_difficulty(BaseWorld, block_difficulties,
                                                          backend_ok).w)
            /\ UNCHANGED <<ovw, threads, dao>>

\* A reader thread calls BlockStore::contains.
Contains ==
    \E blockhash \in Hashes :
        /\ last' = Call("contains", <<blockhash>>, BlockStore_contains(World, blockhash))
        /\ UNCHANGED <<main, order, difficulty, ov, ovw, base, threads, dao>>

\* A reader thread calls BlockStore::contains_order.
ContainsOrder ==
    \E number \in Heights :
        /\ last' = Call("contains_order", <<number>>, BlockStore_contains_order(World, number))
        /\ UNCHANGED <<main, order, difficulty, ov, ovw, base, threads, dao>>

NextWrite ==
    \/ WriteInsert(LookupBlocks)
    \/ WriteInsertOrder(Heights, {1})
    \/ WriteInsertDifficulty(LookupDifficulties)
    \/ Contains
    \/ ContainsOrder
    \/ GetLastDifficulty

\* Writer threads on the three trees with a backend that may reject a batch, and
\* reader threads between their calls.
SpecWrite == Init /\ [][NextWrite]_vars

\* A writer thread enters BlockStoreOverlay::insert and takes the overlay's mutex.
LockInsert(bs) ==
    /\ ov.open
    /\ threads.writer = Idle
    /\ threads.mutex = "free"
    /\ \E blocks \in SeqsUpTo(bs, MaxLen) :
           threads' = [threads EXCEPT !.mutex = "writer",
                                      !.writer = Running("overlay_insert", <<blocks>>)]
    /\ UNCHANGED <<main, order, difficulty, ov, last, ovw, base, dao>>

\* A writer thread enters BlockStoreOverlay::insert_order: it returns on slices of
\* different lengths, and takes the overlay's mutex otherwise.
LockInsertOrder(hs, hashset) ==
    /\ ov.open
    /\ threads.writer = Idle
    /\ \E numbers \in SeqsUpTo(hs, MaxLen), hashes \in SeqsUpTo(hashset, MaxLen) :
           IF Len(numbers) # Len(hashes)
           THEN /\ last' = Call("overlay_insert_order", <<>>, Err(<<"InvalidInputLengths">>))
                /\ UNCHANGED threads
           ELSE /\ threads.mutex = "free"
                /\ threads' = [threads EXCEPT
                                   !.mutex = "writer",
                                   !.writer = Running("overlay_insert_order",
                                                      <<numbers, hashes>>)]
                /\ UNCHANGED last
    /\ UNCHANGED <<main, order, difficulty, ov, ovw, base, dao>>

\* One turn of the writer's loop that releases the mutex after its write and takes it
\* again for the next.
WriterStep_unlocking ==
    LET call == threads.writer
        i == call.i
    IN  /\ call # Idle
        /\ threads.mutex # "reader"
        /\ i <= Len(call.args[1])
        /\ IF call.op = "overlay_insert"
           THEN LET block == call.args[1][i]
                IN  /\ Becomes(Overlay_insert(World, SLED_BLOCK_TREE, Block_hash(block),
                                              Block_encode(block)))
                    /\ ovw' = [ovw EXCEPT ![SLED_BLOCK_TREE] = (Block_hash(block) :> block) @@ @]
                    /\ threads' = [threads EXCEPT
                                       !.mutex = "free",
                                       !.writer.i = i + 1,
                                       !.writer.ret = Append(@, Block_hash(block))]
           ELSE /\ Becomes(Overlay_insert(World, SLED_BLOCK_ORDER_TREE,
                                          to_be_bytes(call.args[1][i]), call.args[2][i]))
                /\ ovw' = [ovw EXCEPT ![SLED_BLOCK_ORDER_TREE] =
                              (call.args[1][i] :> call.args[2][i]) @@ @]
                /\ threads' = [threads EXCEPT !.mutex = "free", !.writer.i = i + 1]
        /\ UNCHANGED <<last, base, dao>>

\* One turn of the loop of insert or insert_order, under the mutex: lock.insert of
\* entry i.
WriterStep ==
    LET call == threads.writer
        i == call.i
    IN  /\ call # Idle
        /\ threads.mutex = "writer"
        /\ i <= Len(call.args[1])
        /\ IF call.op = "overlay_insert"
           THEN LET block == call.args[1][i]
                IN  /\ Becomes(Overlay_insert(World, SLED_BLOCK_TREE, Block_hash(block),
                                              Block_encode(block)))
                    /\ ovw' = [ovw EXCEPT ![SLED_BLOCK_TREE] = (Block_hash(block) :> block) @@ @]
                    /\ threads' = [threads EXCEPT
                                       !.writer.i = i + 1,
                                       !.writer.ret = Append(@, Block_hash(block))]
           ELSE /\ Becomes(Overlay_insert(World, SLED_BLOCK_ORDER_TREE,
                                          to_be_bytes(call.args[1][i]), call.args[2][i]))
                /\ ovw' = [ovw EXCEPT ![SLED_BLOCK_ORDER_TREE] =
                              (call.args[1][i] :> call.args[2][i]) @@ @]
                /\ threads' = [threads EXCEPT !.writer.i = i + 1]
        /\ UNCHANGED <<last, base, dao>>

\* The writer's loop is over: the call returns and its guard releases the mutex.
WriterReturn ==
    LET call == threads.writer
    IN  /\ call # Idle
        /\ call.i > Len(call.args[1])
        /\ last' = Call(call.op, <<>>, Ok(call.ret))
        /\ threads' = [threads EXCEPT !.mutex = "free", !.writer = Idle]
        /\ UNCHANGED <<main, order, difficulty, ov, ovw, base, dao>>

\* A reader thread enters BlockStoreOverlay::get and takes the overlay's mutex.
LockGet ==
    /\ ov.open
    /\ threads.reader = Idle
    /\ threads.mutex = "free"
    /\ \E block_hashes \in SeqsUpTo(Hashes, MaxLen), strict \in BOOLEAN :
           threads' = [threads EXCEPT !.mutex = "reader",
                                      !.reader = Running("overlay_get", <<block_hashes, strict>>)]
    /\ UNCHANGED <<main, order, difficulty, ov, last, ovw, base, dao>>

\* A reader thread enters BlockStoreOverlay::get_order and takes the overlay's mutex.
LockGetOrder ==
    /\ ov.open
    /\ threads.reader = Idle
    /\ threads.mutex = "free"
    /\ \E numbers \in SeqsUpTo(Heights, MaxLen), strict \in BOOLEAN :
           threads' = [threads EXCEPT !.mutex = "reader",
                                      !.reader = Running("overlay_get_order", <<numbers, strict>>)]
    /\ UNCHANGED <<main, order, difficulty, ov, last, ovw, base, dao>>

\* What entry i of a reader's call finds: lock.get of its key, deserialized.
ReaderFinds(w, call, i) ==
    IF call.op = "overlay_get"
    THEN LET found == Overlay_get(w, SLED_BLOCK_TREE, call.args[1][i])
         IN  IF found # None THEN Some(Block_decode(found[1])) ELSE None
    ELSE Overlay_get(w, SLED_BLOCK_ORDER_TREE, to_be_bytes(call.args[1][i]))

\* One turn of the loop of get or get_order, under the mutex: the entry found is
\* pushed; a missing one returns the error when strict, and is pushed as None
\* otherwise.
ReaderStep ==
    LET call == threads.reader
        i == call.i
    IN  /\ call # Idle
        /\ threads.mutex = "reader"
        /\ i <= Len(call.args[1])
        /\ LET found == ReaderFinds(World, call, i)
           IN  IF found = None /\ call.args[2]
               THEN /\ last' = Call(call.op, <<>>,
                                    Err(<<IF call.op = "overlay_get" THEN "BlockNotFound"
                                          ELSE "BlockNumberNotFound", call.args[1][i]>>))
                    /\ threads' = [threads EXCEPT !.mutex = "free", !.reader = Idle]
               ELSE /\ threads' = [threads EXCEPT !.reader.i = i + 1,
                                                  !.reader.ret = Append(@, found)]
                    /\ UNCHANGED last
        /\ UNCHANGED <<main, order, difficulty, ov, ovw, base, dao>>

\* The reader's loop is over: the call returns and its guard releases the mutex.
ReaderReturn ==
    LET call == threads.reader
    IN  /\ call # Idle
        /\ call.i > Len(call.args[1])
        /\ last' = Call(call.op, <<>>, Ok(call.ret))
        /\ threads' = [threads EXCEPT !.mutex = "free", !.reader = Idle]
        /\ UNCHANGED <<main, order, difficulty, ov, ovw, base, dao>>

NextLock ==
    \/ OverlayNew
    \/ LockInsert(LookupBlocks)
    \/ LockInsertOrder(Heights, {1})
    \/ WriterStep
    \/ WriterReturn
    \/ LockGet
    \/ LockGetOrder
    \/ ReaderStep
    \/ ReaderReturn

\* A writer thread and a reader thread on one shared overlay, each call a lock of
\* the mutex, the turns of its loop, and its return.
SpecLock == Init /\ [][NextLock]_vars

NextShadow ==
    \/ DirectInsertOrder(Heights, 1)
    \/ OverlayNew
    \/ OverlayInsertOrder(Heights)
    \/ OverlayGetOrder
    \/ GetOrder
    \/ OverlayCommit

\* The order tree read through an open overlay and directly, the overlay writing
\* over heights the store holds, up to its commit.
SpecShadow == Init /\ [][NextShadow]_vars

\* BlockStoreOverlay::get_last on the open overlay.
OverlayGetLast ==
    /\ ov.open
    /\ last' = Call("overlay_get_last", <<>>, BlockStoreOverlay_get_last(World))
    /\ UNCHANGED <<main, order, difficulty, ov, ovw, base, threads, dao>>

\* BlockStoreOverlay::is_empty on the open overlay.
OverlayIsEmpty ==
    /\ ov.open
    /\ last' = Call("overlay_is_empty", <<>>, BlockStoreOverlay_is_empty(World))
    /\ UNCHANGED <<main, order, difficulty, ov, ovw, base, threads, dao>>

\* The heights given to the order tree and to the overlay: the greatest of one byte
\* and the least of two.
LastHeights == {255, 256}

NextLast ==
    \/ DirectInsertOrder(LastHeights, 1)
    \/ OverlayNew
    \/ OverlayInsertOrder(LastHeights)
    \/ OverlayGetLast
    \/ OverlayIsEmpty
    \/ OverlayDiscard

\* The order tree under an open overlay, and the overlay's get_last and is_empty.
SpecLast == Init /\ [][NextLast]_vars

\* BlockStore::len
GetLen ==
    /\ last' = Call("len", <<>>, Ok(BlockStore_len(World)))
    /\ UNCHANGED <<main, order, difficulty, ov, ovw, base, threads, dao>>

\* BlockStore::is_empty
IsEmpty ==
    /\ last' = Call("is_empty", <<>>, Ok(BlockStore_is_empty(World)))
    /\ UNCHANGED <<main, order, difficulty, ov, ovw, base, threads, dao>>

NextLen ==
    \/ DirectInsert(LookupBlocks, 1)
    \/ DirectInsertOrder(OrderHeights, 1)
    \/ DirectInsertDifficulty(LookupDifficulties, 1)
    \/ GetLen
    \/ IsEmpty

\* The three trees written directly, and the store's len and is_empty.
SpecLen == Init /\ [][NextLen]_vars

NextFrame ==
    \/ DirectInsert(LookupBlocks, 1)
    \/ DirectInsertOrder(Heights, 1)
    \/ DirectInsertDifficulty(LookupDifficulties, 1)
    \/ Contains
    \/ ContainsOrder
    \/ Get
    \/ GetOrder
    \/ GetDifficulty
    \/ GetAfterIn(Heights, 0..MaxN)
    \/ GetFirst
    \/ GetLast
    \/ GetLastDifficulty
    \/ GetLastNDifficulties
    \/ GetLen
    \/ IsEmpty

\* Every operation of the BlockStore, the three writes and all the reads.
SpecFrame == Init /\ [][NextFrame]_vars

\* BlockStore::insert_order of at most MaxLen order numbers and hashes; last keeps
\* the hash given last for each order number, and the count of order numbers.
InsertOrder ==
    \E numbers \in SeqsUpTo(Heights, MaxLen), hashes \in SeqsUpTo(Hashes, MaxLen) :
        LET r == BlockStore_insert_order(World, numbers, hashes, TRUE)
        IN  /\ Becomes(r.w)
            /\ last' = Call("insert_order",
                            <<IF Len(hashes) < Len(numbers) THEN <<>>
                              ELSE LastGiven(numbers, hashes), Len(numbers)>>,
                            r.res)
            /\ base' = Trees(BlockStore_insert_order(BaseWorld, numbers, hashes, TRUE).w)
            /\ UNCHANGED <<ovw, threads, dao>>

\* BlockStore::insert_difficulty of at most MaxLen records; last keeps the record
\* given last for each height, and the count of records.
InsertDifficulty ==
    \E block_difficulties \in SeqsUpTo(Difficulties, MaxLen) :
        LET r == BlockStore_insert_difficulty(World, block_difficulties, TRUE)
        IN  /\ Becomes(r.w)
            /\ last' = Call("insert_difficulty",
                            <<LastGiven([i \in 1..Len(block_difficulties) |->
                                            block_difficulties[i].height],
                                        block_difficulties),
                              Len(block_difficulties)>>,
                            r.res)
            /\ base' = Trees(BlockStore_insert_difficulty(BaseWorld, block_difficulties,
                                                          TRUE).w)
            /\ UNCHANGED <<ovw, threads, dao>>

NextOverwrite ==
    \/ InsertOrder
    \/ InsertDifficulty
    \/ OverlayNew
    \/ OverlayInsertDifficulty(GenesisDifficulties)
    \/ OverlayDiscard

\* The order and difficulty trees written over and over, in slices that may name a
\* height twice, directly and through the overlay.
SpecOverwrite == Init /\ [][NextOverwrite]_vars

\* ------------------------------------------------------- DAO: Dao::Exec

\* DaoProposalBulla values, and the vote commitments (curve points) of the model.
ProposalBullas == {1, 2}

\* struct DaoBlindAggregateVote
DaoBlindAggregateVote_new(yes_vote_commit, all_vote_commit) ==
    [yes_vote_commit |-> yes_vote_commit, all_vote_commit |-> all_vote_commit]

\* The aggregate votes of the model: they differ in the one commit, or in the other.
BlindVotes ==
    {DaoBlindAggregateVote_new(0, 0), DaoBlindAggregateVote_new(1, 0),
     DaoBlindAggregateVote_new(0, 1)}

\* struct DaoProposalMetadata, its vote aggregate.
DaoProposalMetadata_new(vote_aggregate) == [vote_aggregate |-> vote_aggregate]

\* ContractCall: the contract called, and the call data, whose first byte is the
\* function code.
ContractCall_new(contract_id, data) == [contract_id |-> contract_id, data |-> data]

\* The child calls of the model: two contracts, two function codes.
ChildCalls ==
    {ContractCall_new(1, <<0>>), ContractCall_new(1, <<1>>), ContractCall_new(2, <<0>>)}

\* The children of a Dao::Exec call: none, or one.
ChildCallSeqs == {<<>>} \cup {<<c>> : c \in ChildCalls}

\* struct DaoAuthCall as exec.rs reads it: contract_id, function_code, and the index
\* of the child call.
DaoAuthCall_new(contract_id, function_code, index) ==
    [contract_id |-> contract_id, function_code |-> function_code, index |-> index]

\* The auth calls of the model; index 1 names no child.
AuthCalls ==
    {DaoAuthCall_new(c.contract_id, c.data[1], index) : c \in ChildCalls, index \in {0, 1}}

\* struct DaoExecParams
DaoExecParams_new(proposal, proposal_auth_calls, blind_total_vote) ==
    [proposal |-> proposal, proposal_auth_calls |-> proposal_auth_calls,
     blind_total_vote |-> blind_total_vote]

\* DarkLeaf<ContractCall>: the call and the indexes of its children in the call
\* vector.
DarkLeaf_new(data, children_indexes) == [data |-> data, children_indexes |-> children_indexes]

\* The call vector of a transaction whose first call is Dao::Exec with params and
\* whose other calls are its children.
ExecCalls(params, children) ==
    <<DarkLeaf_new(ContractCall_new(0, <<"Exec", params>>),
                   [i \in 1..Len(children) |-> i])>>
        \o [i \in 1..Len(children) |-> DarkLeaf_new(children[i], <<>>)]

\* The proposal databases a Dao::Exec call can find: each bulla absent, or stored
\* with one of the aggregate votes.
ProposalDbs ==
    UNION {[bullas -> {DaoProposalMetadata_new(v) : v \in BlindVotes}] :
              bullas \in SUBSET ProposalBullas}

RECURSIVE dao_exec_check_children(_, _, _, _)
\* The loop over params.proposal_auth_calls: indexing past the end of a vector
\* panics; a child of another contract or function is the wrong child call.
dao_exec_check_children(self_, calls, proposal_auth_calls, i) ==
    IF i > Len(proposal_auth_calls) THEN "Checked"
    ELSE LET auth_call == proposal_auth_calls[i]
         IN  IF auth_call.index >= Len(self_.children_indexes) THEN "Panic"
             ELSE LET child_idx == self_.children_indexes[auth_call.index + 1]
                  IN  IF child_idx >= Len(calls) THEN "Panic"
                      ELSE LET call == calls[child_idx + 1].data
                               contract_id == call.contract_id
                               function_code == call.data[1]
                           IN  IF contract_id # auth_call.contract_id
                                      \/ function_code # auth_call.function_code
                               THEN "ExecCallWrongChildCall"
                               ELSE dao_exec_check_children(self_, calls,
                                                            proposal_auth_calls, i + 1)

\* A process_instruction that compares the yes_vote_commit alone.
dao_exec_process_instruction_yes_only(proposal_db, call_idx, calls) ==
    LET self_ == calls[call_idx + 1]
        params == self_.data.data[2]
        children == dao_exec_check_children(self_, calls, params.proposal_auth_calls, 1)
    IN  IF children = "Panic" THEN [res |-> Panic, db_read |-> FALSE]
        ELSE IF children = "ExecCallWrongChildCall"
        THEN [res |-> Err(<<"ExecCallWrongChildCall">>), db_read |-> FALSE]
        ELSE IF params.proposal \notin DOMAIN proposal_db
        THEN [res |-> Err(<<"ProposalNonexistent">>), db_read |-> TRUE]
        ELSE LET proposal == proposal_db[params.proposal]
             IN  IF proposal.vote_aggregate.yes_vote_commit
                            # params.blind_total_vote.yes_vote_commit
                 THEN [res |-> Err(<<"VoteCommitMismatch">>), db_read |-> TRUE]
                 ELSE [res |-> Ok(<<"Exec", [proposal |-> params.proposal]>>),
                       db_read |-> TRUE]

\* dao_exec_process_instruction: its result, and whether it looked the proposal
\* database up.
dao_exec_process_instruction(proposal_db, call_idx, calls) ==
    LET self_ == calls[call_idx + 1]
        params == self_.data.data[2]
        children == dao_exec_check_children(self_, calls, params.proposal_auth_calls, 1)
    IN  IF children = "Panic" THEN [res |-> Panic, db_read |-> FALSE]
        ELSE IF children = "ExecCallWrongChildCall"
        THEN [res |-> Err(<<"ExecCallWrongChildCall">>), db_read |-> FALSE]
        ELSE IF params.proposal \notin DOMAIN proposal_db
        THEN [res |-> Err(<<"ProposalNonexistent">>), db_read |-> TRUE]
        ELSE LET proposal == proposal_db[params.proposal]
             IN  IF proposal.vote_aggregate.yes_vote_commit
                            # params.blind_total_vote.yes_vote_commit
                        \/ proposal.vote_aggregate.all_vote_commit
                            # params.blind_total_vote.all_vote_commit
                 THEN [res |-> Err(<<"VoteCommitMismatch">>), db_read |-> TRUE]
                 ELSE [res |-> Ok(<<"Exec", [proposal |-> params.proposal]>>),
                       db_read |-> TRUE]

\* A process_update that keeps the proposal.
dao_exec_process_update_keeping(proposal_db, update) == proposal_db

\* dao_exec_process_update: the proposal is removed from the database.
dao_exec_process_update(proposal_db, update) ==
    [bulla \in DOMAIN proposal_db \ {update.proposal} |-> proposal_db[bulla]]

\* Every auth call names a child of the call, and that child is of the auth call's
\* contract and function.
AllChildrenMatch(children, proposal_auth_calls) ==
    \A i \in 1..Len(proposal_auth_calls) :
        LET a == proposal_auth_calls[i]
        IN  /\ a.index < Len(children)
            /\ children[a.index + 1].contract_id = a.contract_id
            /\ children[a.index + 1].data[1] = a.function_code

\* Some auth call names a child of the call that is of another contract or function.
SomeChildMismatch(children, proposal_auth_calls) ==
    \E i \in 1..Len(proposal_auth_calls) :
        LET a == proposal_auth_calls[i]
        IN  /\ a.index < Len(children)
            /\ \/ children[a.index + 1].contract_id # a.contract_id
               \/ children[a.index + 1].data[1] # a.function_code

\* The runtime calls dao_exec_process_instruction on a transaction; last keeps the
\* proposal and the vote of the params and how the auth calls stand to the children.
DaoExecProcessInstruction ==
    \E children \in ChildCallSeqs, proposal_auth_calls \in SeqsUpTo(AuthCalls, MaxAuthCalls),
       proposal \in ProposalBullas, blind_total_vote \in BlindVotes :
        LET params == DaoExecParams_new(proposal, proposal_auth_calls, blind_total_vote)
            r == dao_exec_process_instruction(dao.proposals, 0, ExecCalls(params, children))
        IN  /\ last' = Call("dao_exec_process_instruction",
                            [proposal |-> proposal, blind_total_vote |-> blind_total_vote,
                             all_match |-> AllChildrenMatch(children, proposal_auth_calls),
                             some_mismatch |->
                                 SomeChildMismatch(children, proposal_auth_calls)],
                            r.res)
            /\ dao' = [dao EXCEPT !.db_read = r.db_read]
            /\ UNCHANGED <<main, order, difficulty, ov, ovw, base, threads>>

\* The runtime applies the state update the process_instruction before it returned.
DaoExecProcessUpdate ==
    /\ last.op = "dao_exec_process_instruction"
    /\ last.res.tag = "Ok"
    /\ LET update == last.res.val[2]
       IN  /\ dao' = [proposals |-> dao_exec_process_update(dao.proposals, update),
                      db_read |-> FALSE,
                      executed |-> dao.executed \cup {update.proposal}]
           /\ last' = Call("dao_exec_process_update", update, Ok(<<>>))
    /\ UNCHANGED <<main, order, difficulty, ov, ovw, base, threads>>

\* A fresh block store, and a DAO whose proposal database holds any proposals.
InitDao ==
    /\ main = EmptyTree
    /\ order = EmptyTree
    /\ difficulty = EmptyTree
    /\ ov = [open |-> FALSE, cache |-> NoCache]
    /\ last = Call("new", <<>>, Ok(<<>>))
    /\ ovw = NoCache
    /\ base = [main |-> EmptyTree, order |-> EmptyTree, difficulty |-> EmptyTree]
    /\ threads = [mutex |-> "free", writer |-> Idle, reader |-> Idle]
    /\ \E proposal_db \in ProposalDbs : dao = [NoDao EXCEPT !.proposals = proposal_db]

NextDao ==
    \/ DaoExecProcessInstruction
    \/ DaoExecProcessUpdate

\* Dao::Exec calls, each followed or not by its state update, on any proposal
\* database.
SpecDao == InitDao /\ [][NextDao]_vars

\* ------------------------------------------------------------------- claims

\* The state after the step.
WorldNext == [main |-> main', order |-> order', difficulty |-> difficulty', ov |-> ov']

OverlayInsertOps == {"overlay_insert", "overlay_insert_order", "overlay_insert_difficulty"}

OverlayOps ==
    OverlayInsertOps \cup {"overlay_new", "overlay_get", "overlay_get_order",
                           "overlay_commit", "overlay_discard", "overlay_drop"}

\* What a reader of the direct store is answered.
DirectAnswers(w) ==
    [contains |-> [h \in Hashes |-> BlockStore_contains(w, h)],
     get |-> [h \in Hashes |-> BlockStore_get(w, <<h>>, FALSE)],
     get_order |-> [n \in Heights |-> BlockStore_get_order(w, <<n>>, FALSE)],
     get_last |-> BlockStore_get_last(w),
     len |-> BlockStore_len(w)]

\* C1: read-your-writes. While the overlay is open, get and get_order through it
\* return, for every key inserted through it, the value inserted last for that key,
\* strict or not, whatever the store holds for the key; and so did the last get or
\* get_order call for each of the keys it asked.
C1_ReadYourWrites ==
    ov.open =>
        /\ \A h \in DOMAIN ovw[SLED_BLOCK_TREE], strict \in BOOLEAN :
               LET r == BlockStoreOverlay_get(World, <<h>>, strict)
               IN  r.tag = "Ok" /\ r.val = <<Some(ovw[SLED_BLOCK_TREE][h])>>
        /\ \A n \in DOMAIN ovw[SLED_BLOCK_ORDER_TREE], strict \in BOOLEAN :
               LET r == BlockStoreOverlay_get_order(World, <<n>>, strict)
               IN  r.tag = "Ok" /\ r.val = <<Some(ovw[SLED_BLOCK_ORDER_TREE][n])>>
        /\ (last.op = "overlay_get" /\ last.res.tag = "Ok") =>
               \A i \in 1..Len(last.arg[1]) :
                   last.arg[1][i] \in DOMAIN ovw[SLED_BLOCK_TREE] =>
                       last.res.val[i] = Some(ovw[SLED_BLOCK_TREE][last.arg[1][i]])
        /\ (last.op = "overlay_get_order" /\ last.res.tag = "Ok") =>
               \A i \in 1..Len(last.arg[1]) :
                   last.arg[1][i] \in DOMAIN ovw[SLED_BLOCK_ORDER_TREE] =>
                       last.res.val[i] = Some(ovw[SLED_BLOCK_ORDER_TREE][last.arg[1][i]])

\* C1 witness: a get through the overlay returned the block inserted through it for
\* a hash under which the store holds another block.
C1_Witness ==
    /\ ov.open
    /\ last.op = "overlay_get"
    /\ last.res.tag = "Ok"
    /\ Len(last.arg[1]) = 1
    /\ last.arg[1][1] \in DOMAIN ovw[SLED_BLOCK_TREE]
    /\ last.arg[1][1] \in DOMAIN main
    /\ Block_decode(main[last.arg[1][1]]) # ovw[SLED_BLOCK_TREE][last.arg[1][1]]
    /\ last.res.val = <<Some(ovw[SLED_BLOCK_TREE][last.arg[1][1]])>>

\* C2: isolation before commit. While the overlay is open the three trees are what
\* the direct writes and the past commits alone made them, whatever was inserted
\* through the overlay, and a reader of the direct store is answered accordingly.
C2_IsolationBeforeCommit ==
    ov.open =>
        /\ Trees(World) = base
        /\ DirectAnswers(World) = DirectAnswers(BaseWorld)

\* C2 witness: a block was inserted through the open overlay and the direct store
\* does not contain its hash.
C2_Witness ==
    /\ ov.open
    /\ last.op = "overlay_insert"
    /\ 1 \in DOMAIN ov.cache[SLED_BLOCK_TREE]
    /\ BlockStore_contains(World, 1).val = FALSE

\* C3: a successful commit leaves in the store, for every key written through the
\* overlay in the blocks, order and difficulty trees, the value written last.
C3_CommitPromotesWrites ==
    [][(last'.op = "overlay_commit" /\ last'.res.tag = "Ok") =>
            /\ \A h \in DOMAIN ovw[SLED_BLOCK_TREE] :
                   LET r == BlockStore_get(WorldNext, <<h>>, TRUE)
                   IN  r.tag = "Ok" /\ r.val = <<Some(ovw[SLED_BLOCK_TREE][h])>>
            /\ \A n \in DOMAIN ovw[SLED_BLOCK_ORDER_TREE] :
                   LET r == BlockStore_get_order(WorldNext, <<n>>, TRUE)
                   IN  r.tag = "Ok" /\ r.val = <<Some(ovw[SLED_BLOCK_ORDER_TREE][n])>>
            /\ \A n \in DOMAIN ovw[SLED_BLOCK_DIFFICULTY_TREE] :
                   LET r == BlockStore_get_difficulty(WorldNext, <<n>>, TRUE)
                   IN  r.tag = "Ok" /\ r.val = <<Some(ovw[SLED_BLOCK_DIFFICULTY_TREE][n])>>
      ]_vars

\* C3 witness: an overlay with writes in all three trees was committed.
C3_Witness ==
    /\ last.op = "overlay_commit"
    /\ last.res.tag = "Ok"
    /\ last.arg = TreeNames
    /\ DOMAIN main # {} /\ DOMAIN order # {} /\ DOMAIN difficulty # {}

\* C4: a discard or a drop of the overlay leaves the three trees as they were, equal
\* to what the direct writes and past commits alone made them, and leaves the
\* overlay closed with empty buffers.
C4_ReleaseLeavesStore ==
    [][last'.op \in {"overlay_discard", "overlay_drop"} =>
            /\ Trees(WorldNext) = Trees(World)
            /\ Trees(WorldNext) = base'
            /\ base' = base
            /\ ov'.cache = NoCache
            /\ ~ov'.open
      ]_vars

\* C4 witness: an overlay with writes in all three trees was discarded while the
\* store held nothing.
C4_Witness ==
    /\ last.op = "overlay_discard"
    /\ last.arg = TreeNames
    /\ DOMAIN main = {} /\ DOMAIN order = {} /\ DOMAIN difficulty = {}

\* C5: cross-tree atomic visibility. A call on the overlay either leaves the three
\* trees as they are or is the successful commit, which applies to each tree all
\* the writes buffered for it in the same step.
C5_CommitMovesTreesTogether ==
    [][last'.op \in OverlayOps =>
            \/ Trees(WorldNext) = Trees(World)
            \/ /\ last'.op = "overlay_commit"
               /\ last'.res.tag = "Ok"
               /\ \A t \in TreeNames :
                      StoreTree(WorldNext, t) = Tree_apply_batch(StoreTree(World, t), ov.cache[t])
      ]_vars

\* C5 witness: a commit moved more than one tree.
C5_Witness ==
    /\ last.op = "overlay_commit"
    /\ last.res.tag = "Ok"
    /\ Cardinality(last.arg) >= 2
    /\ DOMAIN order # {}
    /\ DOMAIN main # {}

\* C6: a commit that fails with a backend error returns the error, changes none of
\* the three trees and leaves the overlay open with the buffers it had.
C6_FailedCommitKeepsBuffer ==
    [][(last'.op = "overlay_commit" /\ last'.res.tag = "Err") =>
            /\ last'.res.val = <<"Io">>
            /\ Trees(WorldNext) = Trees(World)
            /\ ov' = ov
            /\ ov'.open
      ]_vars

\* C6 witness: a commit of an overlay with writes in all three trees failed.
C6_Witness ==
    /\ last.op = "overlay_commit"
    /\ last.res.tag = "Err"
    /\ last.arg = TreeNames
    /\ Buffered = TreeNames

\* C7: overlay insert_order with slices of different lengths fails with
\* InvalidInputLengths and changes neither the overlay's buffers nor the store.
C7_OverlayInsertOrderLengths ==
    [][(last'.op = "overlay_insert_order" /\ (last'.arg[1] \/ last'.arg[2])) =>
            /\ last'.res.tag = "Err"
            /\ last'.res.val = <<"InvalidInputLengths">>
            /\ ov' = ov
            /\ Trees(WorldNext) = Trees(World)
      ]_vars

\* C7 witness: insert_order with more order numbers than hashes failed on an overlay
\* that holds no buffered write.
C7_Witness ==
    /\ ov.open
    /\ last.op = "overlay_insert_order"
    /\ last.arg[2]
    /\ last.res.tag = "Err"
    /\ Buffered = {}

\* C8 (as claimed): direct insert_order with slices of different lengths returns
\* InvalidInputLengths, does not panic and writes nothing to the order tree.
C8_DirectInsertOrderLengths ==
    [][(last'.op = "insert_order" /\ (last'.arg[1] \/ last'.arg[2])) =>
            /\ last'.res.tag = "Err"
            /\ last'.res.val = <<"InvalidInputLengths">>
            /\ order' = order
      ]_vars

\* The order-tree entry of height h.
OrderAt(h) == order[to_be_bytes(h)]

HasOrder(h) == to_be_bytes(h) \in DOMAIN order

\* C9 (as claimed): get_after(h, n) returns at most n hashes, each the order-tree
\* entry of a height greater than h, in ascending height order.
C9_GetAfterAtMostN ==
    last.op = "get_after" =>
        /\ last.res.tag = "Ok"
        /\ Len(last.res.val) <= last.arg[2]
        /\ \E f \in [1..Len(last.res.val) -> OrderHeights] :
               /\ \A i \in DOMAIN f :
                      f[i] > last.arg[1] /\ HasOrder(f[i]) /\ OrderAt(f[i]) = last.res.val[i]
               /\ \A i, j \in DOMAIN f : i < j => f[i] < f[j]

\* C10 (as claimed): when a height g > h is absent and h+1..g-1 are present,
\* get_after(h, n) returns only hashes of the heights h+1..g-1, in that order.
C10_GetAfterStopsAtGap ==
    last.op = "get_after" =>
        \A g \in OrderHeights :
            (/\ g > last.arg[1]
             /\ ~HasOrder(g)
             /\ \A k \in (last.arg[1] + 1)..(g - 1) : HasOrder(k)) =>
                /\ last.res.tag = "Ok"
                /\ Len(last.res.val) <= g - 1 - last.arg[1]
                /\ \A i \in 1..Len(last.res.val) :
                       last.res.val[i] = OrderAt(last.arg[1] + i)

\* The order tree holds exactly the heights 0..l.
OrderIsContiguousTo(l) == DOMAIN order = {to_be_bytes(k) : k \in 0..l}

C12_ExtremaOfEmptyTree ==
    (last.op \in {"get_first", "get_last"} /\ order = EmptyTree) =>
        /\ last.res.tag = "Err"
        /\ last.res.val[1] = "BlockNumberNotFound"

\* C13: when the heights 0..l have been written, in whatever order and in however
\* many calls, get_first returns (0, hash of height 0) and get_last returns
\* (l, hash of height l).
C13_ExtremaOfContiguousTree ==
    \A l \in OrderHeights :
        OrderIsContiguousTo(l) =>
            /\ last.op = "get_first" =>
                   last.res.tag = "Ok" /\ last.res.val = <<0, OrderAt(0)>>
            /\ last.op = "get_last" =>
                   last.res.tag = "Ok" /\ last.res.val = <<l, OrderAt(l)>>

\* C13 witness: get_last on a tree of the heights 0..2 returned height 2 and its hash.
C13_Witness ==
    /\ last.op = "get_last"
    /\ OrderIsContiguousTo(2)
    /\ last.res.tag = "Ok"
    /\ last.res.val = <<2, OrderAt(2)>>

\* The least and the greatest of a non-empty set of numbers.
MinOf(S) == CHOOSE x \in S : \A y \in S : x <= y

MaxOf(S) == CHOOSE x \in S : \A y \in S : y <= x

\* The heights that have a record in the order tree, and in the difficulty tree.
StoredOrderHeights == {h \in KeyHeights : to_be_bytes(h) \in DOMAIN order}

StoredDifficultyHeights == {h \in KeyHeights : to_be_bytes(h) \in DOMAIN difficulty}

\* C14: the 8-byte big-endian key of a height is order-preserving (a < b gives
\* key(a) lexicographically below key(b)), so the cursors return the numerically
\* smallest (get_first), largest (get_last, get_last_difficulty) and next-larger
\* (get_after) stored height.
C14_BigEndianKeysKeepOrder ==
    /\ \A a, b \in KeyHeights \cup {0} :
           a < b => LexLess(to_be_bytes(a), to_be_bytes(b))
    /\ (last.op = "get_first" /\ StoredOrderHeights # {}) =>
           /\ last.res.tag = "Ok"
           /\ last.res.val = <<MinOf(StoredOrderHeights), OrderAt(MinOf(StoredOrderHeights))>>
    /\ (last.op = "get_last" /\ StoredOrderHeights # {}) =>
           /\ last.res.tag = "Ok"
           /\ last.res.val = <<MaxOf(StoredOrderHeights), OrderAt(MaxOf(StoredOrderHeights))>>
    /\ last.op = "get_after" =>
           LET above == {h \in StoredOrderHeights : h > last.arg[1]}
           IN  /\ last.res.tag = "Ok"
               /\ last.res.val = IF above = {} THEN <<>> ELSE <<OrderAt(MinOf(above))>>
    /\ (last.op = "get_last_difficulty" /\ StoredDifficultyHeights # {}) =>
           /\ last.res.tag = "Ok"
           /\ Len(last.res.val) = 1
           /\ last.res.val[1].height = MaxOf(StoredDifficultyHeights)

\* C14 witness: the order tree holds the heights 1 and 256, whose little-endian keys
\* would be in the opposite order, and get_first returned height 1.
C14_Witness ==
    /\ last.op = "get_first"
    /\ StoredOrderHeights = {1, 256}
    /\ last.res.tag = "Ok"
    /\ last.res.val[1] = 1

LookupOps == {"get", "get_order", "get_difficulty"}

\* Whether the tree read by lookup op holds key.
LookupHas(op, key) ==
    CASE op = "get" -> key \in DOMAIN main
      [] op = "get_order" -> to_be_bytes(key) \in DOMAIN order
      [] op = "get_difficulty" -> to_be_bytes(key) \in DOMAIN difficulty

\* The value that was stored under key in the tree read by lookup op.
LookupStored(op, key) ==
    CASE op = "get" -> CHOOSE b \in LookupBlocks : Block_encode(b) = main[key]
      [] op = "get_order" -> order[to_be_bytes(key)]
      [] op = "get_difficulty" ->
             CHOOSE d \in LookupDifficulties :
                 BlockDifficulty_encode(d) = difficulty[to_be_bytes(key)]

LookupError(op) ==
    CASE op = "get" -> "BlockNotFound"
      [] op = "get_order" -> "BlockNumberNotFound"
      [] op = "get_difficulty" -> "BlockDifficultyNotFound"

\* The positions of the last lookup whose key is absent.
LookupAbsent == {i \in 1..Len(last.arg[1]) : ~LookupHas(last.op, last.arg[1][i])}

\* C15: a strict get / get_order / get_difficulty fails exactly when a requested key
\* is absent, with the not-found error of its tree carrying the first absent key in
\* input order; with every key present it returns every stored value as Some, in
\* input order.
C15_StrictLookup ==
    (last.op \in LookupOps /\ last.arg[2]) =>
        IF LookupAbsent # {}
        THEN /\ last.res.tag = "Err"
             /\ last.res.val = <<LookupError(last.op), last.arg[1][MinOf(LookupAbsent)]>>
        ELSE /\ last.res.tag = "Ok"
             /\ Len(last.res.val) = Len(last.arg[1])
             /\ \A i \in 1..Len(last.arg[1]) :
                    last.res.val[i] = Some(LookupStored(last.op, last.arg[1][i]))

\* C15 witness: a strict get of two absent hashes failed with the first of them.
C15_Witness ==
    /\ last.op = "get"
    /\ last.arg = <<(<<2, 1>>), TRUE>>
    /\ main = EmptyTree
    /\ last.res.tag = "Err"
    /\ last.res.val = <<"BlockNotFound", 2>>

\* C16: a get / get_order / get_difficulty that is not strict does not fail on a
\* missing key; its result has the length of the input, position i being Some of the
\* value stored under key i when that key is present and None otherwise, also when
\* a key is requested more than once.
C16_LenientLookup ==
    (last.op \in LookupOps /\ ~last.arg[2]) =>
        /\ last.res.tag = "Ok"
        /\ Len(last.res.val) = Len(last.arg[1])
        /\ \A i \in 1..Len(last.arg[1]) :
               last.res.val[i] =
                   IF i \in LookupAbsent THEN None
                   ELSE Some(LookupStored(last.op, last.arg[1][i]))

\* C16 witness: a get_difficulty that is not strict, of an absent height and then a
\* present one, returned None and then the stored record.
C16_Witness ==
    /\ last.op = "get_difficulty"
    /\ last.arg = <<(<<0, 1>>), FALSE>>
    /\ LookupAbsent = {1}
    /\ last.res.tag = "Ok"
    /\ Len(last.res.val) = 2
    /\ last.res.val[1] = None
    /\ last.res.val[2] # None

\* The block of the slice that was inserted last under the hash of blocks[i].
LastWithHashOf(blocks, i) ==
    blocks[CHOOSE j \in 1..Len(blocks) :
               /\ Block_hash(blocks[j]) = Block_hash(blocks[i])
               /\ \A k \in 1..Len(blocks) :
                      Block_hash(blocks[k]) = Block_hash(blocks[i]) => k <= j]

\* C17 (as claimed): insert(blocks) returns hash(block) for each block, in input
\* order, and a strict get of those hashes returns the inserted blocks.
C17_InsertThenGet ==
    /\ last.op = "insert" =>
           /\ last.res.tag = "Ok"
           /\ Len(last.res.val) = Len(last.arg[1])
           /\ \A i \in 1..Len(last.arg[1]) : last.res.val[i] = Block_hash(last.arg[1][i])
    /\ last.op = "get_inserted" =>
           /\ last.res.tag = "Ok"
           /\ Len(last.res.val) = Len(last.arg[1])
           /\ \A i \in 1..Len(last.arg[1]) : last.res.val[i] = Some(last.arg[1][i])

\* C17 (amended): insert(blocks) returns hash(block) for each block, in input order,
\* and a strict get of those hashes returns, at each position, the block of the
\* slice inserted last under that hash.
C17_InsertThenGetLast ==
    /\ last.op = "insert" =>
           /\ last.res.tag = "Ok"
           /\ Len(last.res.val) = Len(last.arg[1])
           /\ \A i \in 1..Len(last.arg[1]) : last.res.val[i] = Block_hash(last.arg[1][i])
    /\ last.op = "get_inserted" =>
           /\ last.res.tag = "Ok"
           /\ Len(last.res.val) = Len(last.arg[1])
           /\ \A i \in 1..Len(last.arg[1]) :
                  last.res.val[i] = Some(LastWithHashOf(last.arg[1], i))

\* C17 witness: two blocks of one hash that differ in their signature were inserted
\* in one slice, and the get returned the second of them at both positions.
C17_Witness ==
    /\ last.op = "get_inserted"
    /\ Len(last.arg[1]) = 2
    /\ Block_hash(last.arg[1][1]) = Block_hash(last.arg[1][2])
    /\ last.arg[1][1] # last.arg[1][2]
    /\ last.res.tag = "Ok"
    /\ last.res.val = <<Some(last.arg[1][2]), Some(last.arg[1][2])>>

\* The last insert gave only blocks the blocks tree already held, unchanged.
InsertsStoredBlocks ==
    \A i \in 1..Len(last'.arg[1]) :
        /\ Block_hash(last'.arg[1][i]) \in DOMAIN main
        /\ main[Block_hash(last'.arg[1][i])] = Block_encode(last'.arg[1][i])

\* The last insert gave one block, several times.
InsertsOneBlockRepeated ==
    /\ Len(last'.arg[1]) >= 1
    /\ \A i \in 1..Len(last'.arg[1]) : last'.arg[1][i] = last'.arg[1][1]

\* C18: inserting a block the blocks tree already holds leaves the tree as it was,
\* and inserting a block several times in one slice leaves the tree as inserting it
\* once does; the tree grows by the new hashes only.
C18_InsertTwice ==
    [][last'.op = "insert" =>
          /\ InsertsStoredBlocks => main' = main
          /\ InsertsOneBlockRepeated =>
                 main' = BlockStore_insert(World, <<last'.arg[1][1]>>, TRUE).w.main
          /\ Tree_len(main') =
                 Cardinality(DOMAIN main \cup
                     {Block_hash(last'.arg[1][i]) : i \in 1..Len(last'.arg[1])})
      ]_vars

\* C18 witness: a block already in the tree was inserted again, twice in one slice,
\* and the tree still has one record.
C18_Witness ==
    /\ last.op = "insert"
    /\ Len(last.arg[1]) = 2
    /\ last.arg[1][1] = last.arg[1][2]
    /\ base.main # EmptyTree
    /\ Tree_len(main) = 1

\* The heights of OrderHeights that have a record in the difficulty tree.
DifficultyHeights == {h \in OrderHeights : to_be_bytes(h) \in DOMAIN difficulty}

\* The record that was stored under height h.
DifficultyAt(h) ==
    CHOOSE d \in HeightDifficulties : BlockDifficulty_encode(d) = difficulty[to_be_bytes(h)]

\* C19: get_last_n_difficulties(n) returns min(n, number of records) records, those
\* of the greatest heights, in strictly ascending height order.
C19_LastNDifficulties ==
    last.op = "get_last_n_difficulties" =>
        LET n == last.arg[1]
            size == Cardinality(DifficultyHeights)
            count == IF n < size THEN n ELSE size
            returned == {last.res.val[i].height : i \in 1..Len(last.res.val)}
        IN  /\ last.res.tag = "Ok"
            /\ Len(last.res.val) = count
            /\ \A i \in 1..Len(last.res.val) :
                   /\ last.res.val[i].height \in DifficultyHeights
                   /\ last.res.val[i] = DifficultyAt(last.res.val[i].height)
            /\ \A i, j \in 1..Len(last.res.val) :
                   i < j => last.res.val[i].height < last.res.val[j].height
            /\ \A h \in DifficultyHeights \ returned : \A r \in returned : h < r

\* C19 witness: with records at the heights 0, 1 and 2, get_last_n_difficulties(2)
\* returned those of the heights 1 and 2, in that order.
C19_Witness ==
    /\ last.op = "get_last_n_difficulties"
    /\ last.arg = <<2>>
    /\ DifficultyHeights = {0, 1, 2}
    /\ last.res.tag = "Ok"
    /\ last.res.val = <<DifficultyAt(1), DifficultyAt(2)>>

\* C20: get_last_difficulty returns None exactly when the difficulty tree is empty,
\* otherwise Some of the record stored under the greatest height; it does not fail,
\* and it agrees with the last element of get_last_n_difficulties(1).
C20_LastDifficulty ==
    last.op = "get_last_difficulty" =>
        /\ last.res.tag = "Ok"
        /\ (last.res.val = None) <=> (difficulty = EmptyTree)
        /\ DifficultyHeights # {} =>
               /\ last.res.val = Some(DifficultyAt(MaxOf(DifficultyHeights)))
               /\ LET r == BlockStore_get_last_n_difficulties(World, 1)
                   IN  r.tag = "Ok" /\ r.val # <<>> /\ last.res.val = Some(r.val[Len(r.val)])

\* C20 witness: with records at the heights 0 and 1, get_last_difficulty returned
\* the record of height 1.
C20_Witness ==
    /\ last.op = "get_last_difficulty"
    /\ DifficultyHeights = {0, 1}
    /\ last.res.tag = "Ok"
    /\ last.res.val = Some(DifficultyAt(1))

\* C21: when the store changes only by overlay commits that each add the next
\* height, in every state the order tree holds a contiguous prefix of heights from 0,
\* every hash of the order tree is a key of the blocks tree, and the difficulty tree
\* holds exactly the heights of the order tree.
C21_ChainInvariant ==
    LET n == Tree_len(order)
    IN  /\ DOMAIN order = {to_be_bytes(h) : h \in 0..(n - 1)}
        /\ \A k \in DOMAIN order : order[k] \in DOMAIN main
        /\ DOMAIN difficulty = DOMAIN order

\* C21 witness: two extensions were committed, and a third is open with its order
\* entry buffered but not its difficulty record.
C21_Witness ==
    /\ Tree_len(order) = 2
    /\ ov.open
    /\ DOMAIN ov.cache[SLED_BLOCK_ORDER_TREE] # {}
    /\ DOMAIN ov.cache[SLED_BLOCK_DIFFICULTY_TREE] = {}

\* The record get_difficulty returns for height h.
DifficultyRead(h) == BlockStore_get_difficulty(World, <<h>>, TRUE).val[1][1]

RECURSIVE SumOfDifficulty(_)
\* The sums, over the heights 0..h, of what the store returns as the difficulty, the
\* target rank and the hash rank of each height.
SumOfDifficulty(h) ==
    IF h < 0 THEN 0 ELSE SumOfDifficulty(h - 1) + DifficultyRead(h).difficulty

RECURSIVE SumOfTargetRank(_)
SumOfTargetRank(h) ==
    IF h < 0 THEN 0 ELSE SumOfTargetRank(h - 1) + DifficultyRead(h).ranks.target_rank

RECURSIVE SumOfHashRank(_)
SumOfHashRank(h) ==
    IF h < 0 THEN 0 ELSE SumOfHashRank(h - 1) + DifficultyRead(h).ranks.hash_rank

\* C22: when the caller builds each record's cumulative fields as the previous
\* height's plus its own, every stored record's cumulative difficulty is the sum of
\* the difficulties of the heights 0..h as the store returns them, and likewise the
\* two cumulative ranks: nothing is truncated or wrapped.
C22_CumulativeConsistency ==
    \A h \in DifficultyHeights :
        /\ \A k \in 0..h : k \in DifficultyHeights
        /\ DifficultyRead(h).height = h
        /\ DifficultyRead(h).cummulative_difficulty = SumOfDifficulty(h)
        /\ DifficultyRead(h).ranks.targets_rank = SumOfTargetRank(h)
        /\ DifficultyRead(h).ranks.hashes_rank = SumOfHashRank(h)

\* C22 witness: the record of height 1 has a cumulative difficulty of 256, two
\* bytes, from the difficulties 255 and 1.
C22_Witness ==
    /\ DifficultyHeights = {0, 1}
    /\ DifficultyRead(0).difficulty = 255
    /\ DifficultyRead(1).difficulty = 1
    /\ DifficultyRead(1).cummulative_difficulty = 256
    /\ last.op = "get_last_difficulty"
    /\ last.res.val[1].cummulative_difficulty = 256

\* C23: the on-disk form of a full block has the hash of the full block, which is
\* the hash of its header; and every record of the blocks tree, and of the overlay's
\* buffer of it, is stored under the hash of the block it decodes to, which is the
\* on-disk form of a full block of that hash.
C23_ContentAddressing ==
    /\ \A i \in BlockInfos :
           /\ Block_hash(Block_from_block_info(i)) = BlockInfo_hash(i)
           /\ BlockInfo_hash(i) = Header_hash(i.header)
    /\ \A k \in DOMAIN main :
           /\ Block_hash(Block_decode(main[k])) = k
           /\ \E i \in BlockInfos :
                  BlockInfo_hash(i) = k /\ Block_decode(main[k]) = Block_from_block_info(i)
    /\ \A k \in DOMAIN ov.cache[SLED_BLOCK_TREE] :
           Block_hash(Block_decode(ov.cache[SLED_BLOCK_TREE][k])) = k

\* C23 witness: the blocks tree holds a block written directly and another that
\* came through a committed overlay.
C23_Witness ==
    /\ last.op = "overlay_commit"
    /\ last.res.tag = "Ok"
    /\ SLED_BLOCK_TREE \in last.arg
    /\ Tree_len(main) = 2
    /\ \E k \in DOMAIN main : Len(Block_decode(main[k]).txs) = 1

\* Every value of S is what decode gives back from its encoding, and no two values
\* of S have the same encoding.
CodecDifficultiesRoundTrip ==
    /\ \A d \in CodecDifficulties : BlockDifficulty_decode(BlockDifficulty_encode(d)) = d
    /\ Cardinality({BlockDifficulty_encode(d) : d \in CodecDifficulties})
           = Cardinality(CodecDifficulties)

CodecBlocksRoundTrip ==
    /\ \A b \in Blocks \cup SignedBlocks : Block_decode(Block_encode(b)) = b
    /\ Cardinality({Block_encode(b) : b \in Blocks \cup SignedBlocks})
           = Cardinality(Blocks \cup SignedBlocks)

CodecOrderEntriesRoundTrip ==
    /\ \A e \in CodecOrderEntries : parse_u64_key_record(OrderEntry_encode(e)) = e
    /\ Cardinality({OrderEntry_encode(e) : e \in CodecOrderEntries})
           = Cardinality(CodecOrderEntries)

\* C24: decode(encode(v)) = v for every BlockDifficulty (zero big integers
\* included, the four ranks written in the order target_rank, targets_rank,
\* hash_rank, hashes_rank), every Block and every order entry; different values have
\* different encodings; and what the reads return is a value whose encoding is the
\* stored record.
C24_CodecRoundTrip ==
    /\ CodecDifficultiesRoundTrip
    /\ BlockRanks_encode(BlockRanks_new(1, 2, 3, 4)) = <<1, 1, 1, 2, 1, 3, 1, 4>>
    /\ CodecBlocksRoundTrip
    /\ CodecOrderEntriesRoundTrip
    /\ (last.op = "get_last_difficulty" /\ last.res.val # None) =>
           /\ last.res.val[1] \in CodecStored
           /\ BlockDifficulty_encode(last.res.val[1]) =
                  difficulty[to_be_bytes(last.res.val[1].height)]
    /\ (last.op = "get" /\ last.res.tag = "Ok") =>
           \A i \in 1..Len(last.res.val) :
               last.res.val[i] # None =>
                   /\ last.res.val[i][1] \in Blocks
                   /\ Block_encode(last.res.val[i][1]) = main[last.arg[1][i]]

\* C24 witness: get_last_difficulty returned the stored record of height 256 whose
\* ranks are 1, 2, 3, 4 and whose cumulative difficulty has three bytes.
C24_Witness ==
    /\ last.op = "get_last_difficulty"
    /\ last.res.val # None
    /\ last.res.val[1].height = 256
    /\ last.res.val[1].ranks = BlockRanks_new(1, 2, 3, 4)
    /\ last.res.val[1].cummulative_difficulty = 65536

\* The step is a write call that stored the value given last for each of keys, or
\* that failed and left the tree as it was.
WroteAllOrNone(tree, tree_next, keys, vals) ==
    \/ /\ last'.res.tag = "Ok"
       /\ tree_next = LastGiven(keys, vals) @@ tree
    \/ /\ last'.res.tag \in {"Err", "Panic"}
       /\ tree_next = tree

\* The encoded records of a slice of difficulty records, and their heights.
EncodedDifficulties(ds) == [i \in 1..Len(ds) |-> BlockDifficulty_encode(ds[i])]
HeightKeys(hs) == [i \in 1..Len(hs) |-> to_be_bytes(hs[i])]

\* C25: every step that changes a tree is one direct write call, and it takes its
\* tree from a state with the call's entries as they were to the state with all of
\* them written, or, when the backend rejects the batch (or the call panics), leaves
\* the tree unchanged; the other two trees never change in that step. No state a
\* reader can observe holds a proper part of a call's entries.
C25_DirectWriteAtomic ==
    [][/\ last'.op = "insert" =>
           /\ WroteAllOrNone(main, main',
                              [i \in 1..Len(last'.arg[1]) |-> Block_hash(last'.arg[1][i])],
                              [i \in 1..Len(last'.arg[1]) |-> Block_encode(last'.arg[1][i])])
           /\ UNCHANGED <<order, difficulty>>
       /\ last'.op = "insert_order" =>
           /\ WroteAllOrNone(order, order', HeightKeys(last'.arg[1]), last'.arg[2])
           /\ UNCHANGED <<main, difficulty>>
       /\ last'.op = "insert_difficulty" =>
           /\ WroteAllOrNone(difficulty, difficulty',
                              HeightKeys([i \in 1..Len(last'.arg[1]) |->
                                             last'.arg[1][i].height]),
                              EncodedDifficulties(last'.arg[1]))
           /\ UNCHANGED <<main, order>>
       /\ last'.op \notin {"insert", "insert_order", "insert_difficulty"} =>
           UNCHANGED <<main, order, difficulty>>]_vars

\* C25 witness: insert_difficulty of two records of different heights was rejected
\* by the backend, and the tree holds neither height.
C25_Witness ==
    /\ last.op = "insert_difficulty"
    /\ last.res.tag = "Err"
    /\ Len(last.arg[1]) = 2
    /\ last.arg[1][1].height # last.arg[1][2].height
    /\ DOMAIN difficulty = {}

\* C26: no direct write call writes more than one tree, so a chain extension made of
\* insert, insert_order and insert_difficulty passes through states between its
\* calls; the witness is such a state, seen by a reader.
C26_OneTreePerCall ==
    [][/\ (main' # main) => (last'.op = "insert" /\ UNCHANGED <<order, difficulty>>)
       /\ (order' # order) => (last'.op = "insert_order" /\ UNCHANGED <<main, difficulty>>)
       /\ (difficulty' # difficulty) =>
              (last'.op = "insert_difficulty" /\ UNCHANGED <<main, order>>)]_vars

\* C26 witness: after insert and insert_order of a chain extension at height 0, and
\* before its insert_difficulty, a reader's contains_order(0) answers true while the
\* difficulty tree has no record of height 0.
C26_Witness ==
    /\ last.op = "contains_order"
    /\ last.arg = <<0>>
    /\ last.res = Ok(TRUE)
    /\ Tree_get(order, to_be_bytes(0)) = Some(1)
    /\ Tree_contains_key(main, 1)
    /\ ~Tree_contains_key(difficulty, to_be_bytes(0))

\* C27: the calls on one shared overlay are serialized by its mutex: the writer and
\* the reader are never both inside a call; a call in progress holds the mutex, so
\* whenever the mutex is not the writer's the buffer holds none or all of the entries
\* of the writer's call; and everything a reader's call has read so far is what the
\* buffer holds now, so no write fell between two of its reads and it sees none or
\* all of a writer's call.
C27_OverlayCallsSerialized ==
    /\ ~(threads.writer # Idle /\ threads.reader # Idle)
    /\ threads.writer # Idle => threads.mutex = "writer"
    /\ threads.reader # Idle => threads.mutex = "reader"
    /\ (threads.writer # Idle /\ threads.mutex # "writer") =>
           (threads.writer.i = 1 \/ threads.writer.i > Len(threads.writer.args[1]))
    /\ threads.reader # Idle =>
           \A j \in 1..Len(threads.reader.ret) :
               threads.reader.ret[j] = ReaderFinds(World, threads.reader, j)

\* C27 witness: the writer is inside insert of two blocks of different hashes, one
\* of them written, and holds the mutex, the reader being outside.
C27_Witness ==
    /\ threads.writer.op = "overlay_insert"
    /\ Len(threads.writer.args[1]) = 2
    /\ threads.writer.i = 2
    /\ Block_hash(threads.writer.args[1][1]) # Block_hash(threads.writer.args[1][2])
    /\ Overlay_get(World, SLED_BLOCK_TREE, Block_hash(threads.writer.args[1][1])) # None
    /\ Overlay_get(World, SLED_BLOCK_TREE, Block_hash(threads.writer.args[1][2])) = None
    /\ threads.mutex = "writer"
    /\ threads.reader = Idle

\* In world w, whose overlay was given the order entries of given and whose trees were
\* b when only direct writes and commits are counted: a height the overlay has not
\* written reads through it as it reads directly, and a height it has written reads
\* through it as the hash written last, while it reads directly as in b.
OrderShadowsStore(w, given, b) ==
    \A n \in Heights :
        LET through == BlockStoreOverlay_get_order(w, <<n>>, FALSE)
            direct == BlockStore_get_order(w, <<n>>, FALSE)
        IN  /\ n \notin DOMAIN given => through = direct
            /\ n \in DOMAIN given =>
                   /\ through = Ok(<<Some(given[n])>>)
                   /\ direct = Ok(<<Tree_get(b.order, to_be_bytes(n))>>)

\* C28: while the overlay is open, get_order through it returns the store's value
\* for a height it has not written and the hash it wrote for a height it has
\* written, whatever the store holds there, and the direct get_order goes on
\* returning the store's old value; the get_order calls made returned just that; and
\* a successful commit makes the direct get_order return the hashes written.
C28_OverlayShadowsStore ==
    [][/\ ov'.open =>
           /\ OrderShadowsStore(WorldNext, ovw'[SLED_BLOCK_ORDER_TREE], base')
           /\ (last'.op = "overlay_get_order" /\ last'.res.tag = "Ok") =>
                  \A i \in 1..Len(last'.arg[1]) :
                      LET n == last'.arg[1][i]
                      IN  last'.res.val[i] =
                              IF n \in DOMAIN ovw[SLED_BLOCK_ORDER_TREE]
                              THEN Some(ovw[SLED_BLOCK_ORDER_TREE][n])
                              ELSE Tree_get(order, to_be_bytes(n))
       /\ (last'.op = "overlay_commit" /\ last'.res.tag = "Ok") =>
           \A n \in DOMAIN ovw[SLED_BLOCK_ORDER_TREE] :
               BlockStore_get_order(WorldNext, <<n>>, TRUE)
                   = Ok(<<Some(ovw[SLED_BLOCK_ORDER_TREE][n])>>)]_vars

\* C28 witness: the store holds hash 1 at height 0, the overlay wrote hash 2 there,
\* and get_order(0) through the overlay returned hash 2 while the direct get_order(0)
\* returns hash 1.
C28_Witness ==
    /\ ov.open
    /\ last.op = "overlay_get_order"
    /\ last.arg[1] = <<0>>
    /\ last.res = Ok(<<Some(2)>>)
    /\ 0 \in DOMAIN ovw[SLED_BLOCK_ORDER_TREE]
    /\ BlockStore_get_order(World, <<0>>, TRUE) = Ok(<<Some(1)>>)

\* The heights the store's order tree holds, and the heights written through the
\* open overlay.
StoreHeights == {h \in LastHeights : Tree_contains_key(order, to_be_bytes(h))}
BufferedHeights == DOMAIN ovw[SLED_BLOCK_ORDER_TREE]

\* C29: get_last through the overlay returns the entry of the greatest height among
\* the heights of the store and the heights written through the overlay, with the
\* hash the overlay wrote there or else the store's; it returns
\* BlockNumberNotFound exactly when there is no such height, and is_empty through
\* the overlay is true exactly then.
C29_OverlayGetLastMerged ==
    ov.open =>
        LET merged == StoreHeights \cup BufferedHeights
            top == MaxOf(merged)
        IN  /\ last.op = "overlay_get_last" =>
                   IF merged = {}
                   THEN /\ last.res = Err(<<"BlockNumberNotFound", 0>>)
                        /\ BlockStoreOverlay_is_empty(World) = Ok(TRUE)
                   ELSE /\ last.res =
                               Ok(<<top, IF top \in BufferedHeights
                                         THEN ovw[SLED_BLOCK_ORDER_TREE][top]
                                         ELSE order[to_be_bytes(top)]>>)
                        /\ BlockStoreOverlay_is_empty(World) = Ok(FALSE)
            /\ last.op = "overlay_is_empty" => last.res = Ok(merged = {})

\* C29 witness: the store holds height 256 and the overlay wrote height 255 only;
\* get_last through the overlay returned the store's entry of height 256.
C29_Witness ==
    /\ ov.open
    /\ last.op = "overlay_get_last"
    /\ StoreHeights = {256}
    /\ BufferedHeights = {255}
    /\ last.res.tag = "Ok"
    /\ last.res.val[1] = 256

\* The heights that have an entry in the order tree of world w.
OrderHeightsOf(w) == {h \in OrderHeights : Tree_contains_key(w.order, to_be_bytes(h))}

\* In world w, len is the number of heights of the order tree and is_empty tells
\* whether there is none.
LenCountsOrder(w) ==
    /\ BlockStore_len(w) = Cardinality(OrderHeightsOf(w))
    /\ BlockStore_is_empty(w) = (OrderHeightsOf(w) = {})

\* C30: in every state len() is the number of distinct heights of the order tree and
\* is_empty() tells whether it has none, and so answered the calls made; a step
\* that inserts blocks or difficulty records leaves len() and is_empty() unchanged,
\* whatever it stores.
C30_LenCountsOrderTree ==
    [][/\ LenCountsOrder(World)
       /\ LenCountsOrder(WorldNext)
       /\ last'.op = "len" => last'.res = Ok(Cardinality(OrderHeightsOf(World)))
       /\ last'.op = "is_empty" => last'.res = Ok(OrderHeightsOf(World) = {})
       /\ last'.op \in {"insert", "insert_difficulty"} =>
              /\ BlockStore_len(WorldNext) = BlockStore_len(World)
              /\ BlockStore_is_empty(WorldNext) = BlockStore_is_empty(World)]_vars

\* C30 witness: the blocks tree and the difficulty tree hold records, the order tree
\* holds none, and len() returned 0.
C30_Witness ==
    /\ last.op = "len"
    /\ last.res = Ok(0)
    /\ DOMAIN main # {}
    /\ DOMAIN difficulty # {}
    /\ DOMAIN order = {}

\* The names of the read operations of the BlockStore.
ReadOps ==
    {"contains", "contains_order", "get", "get_order", "get_difficulty", "get_after",
     "get_first", "get_last", "get_last_difficulty", "get_last_n_difficulties", "len",
     "is_empty"}

\* C31: a step of insert changes no tree but the blocks tree, a step of insert_order
\* none but the order tree, a step of insert_difficulty none but the difficulty
\* tree, and a step of any read operation changes none of the three; every step is
\* one of these calls.
C31_FrameOfEachCall ==
    [][/\ last'.op \in ReadOps \cup {"insert", "insert_order", "insert_difficulty"}
       /\ last'.op \in ReadOps => (main' = main /\ order' = order /\ difficulty' = difficulty)
       /\ last'.op = "insert" => (order' = order /\ difficulty' = difficulty)
       /\ last'.op = "insert_order" => (main' = main /\ difficulty' = difficulty)
       /\ last'.op = "insert_difficulty" => (main' = main /\ order' = order)]_vars

\* C31 witness: get_first returned an entry of the order tree, which still holds it,
\* with records in the other two trees.
C31_Witness ==
    /\ last.op = "get_first"
    /\ last.res.tag = "Ok"
    /\ Tree_get(order, to_be_bytes(last.res.val[1])) = Some(last.res.val[2])
    /\ DOMAIN main # {}
    /\ DOMAIN difficulty # {}

\* Every record of a difficulty tree or buffer is stored under the big-endian bytes
\* of its own height field.
KeyedByOwnHeight(tree) ==
    \A key \in DOMAIN tree :
        /\ BlockDifficulty_decode(tree[key]).height = from_bytes_be(key)
        /\ key = to_be_bytes(BlockDifficulty_decode(tree[key]).height)

\* C32: a step of insert_order or insert_difficulty leaves, for every height the
\* call names, the value of the last pair or record given for it (also when the
\* call names the height twice), and leaves every other height as it was; a call
\* that panics stores nothing. Every difficulty record, in the tree and in the
\* overlay's buffer, is stored under its own height, and the buffer holds for each
\* height the record given last to the overlay.
C32_LastWriteWins ==
    [][/\ (last'.op = "insert_order" /\ last'.res.tag = "Ok") =>
           /\ \A n \in Heights :
                  Tree_get(order', to_be_bytes(n)) =
                      IF n \in DOMAIN last'.arg[1] THEN Some(last'.arg[1][n])
                      ELSE Tree_get(order, to_be_bytes(n))
           /\ DOMAIN order' \subseteq {to_be_bytes(n) : n \in Heights}
       /\ (last'.op = "insert_order" /\ last'.res.tag # "Ok") => order' = order
       /\ last'.op = "insert_difficulty" =>
           /\ \A h \in Heights :
                  Tree_get(difficulty', to_be_bytes(h)) =
                      IF h \in DOMAIN last'.arg[1]
                      THEN Some(BlockDifficulty_encode(last'.arg[1][h]))
                      ELSE Tree_get(difficulty, to_be_bytes(h))
           /\ DOMAIN difficulty' \subseteq {to_be_bytes(h) : h \in Heights}
       /\ KeyedByOwnHeight(difficulty')
       /\ ov'.open =>
           /\ KeyedByOwnHeight(ov'.cache[SLED_BLOCK_DIFFICULTY_TREE])
           /\ DOMAIN ov'.cache[SLED_BLOCK_DIFFICULTY_TREE] =
                  {to_be_bytes(h) : h \in DOMAIN ovw'[SLED_BLOCK_DIFFICULTY_TREE]}
           /\ \A h \in DOMAIN ovw'[SLED_BLOCK_DIFFICULTY_TREE] :
                  ov'.cache[SLED_BLOCK_DIFFICULTY_TREE][to_be_bytes(h)] =
                      BlockDifficulty_encode(ovw'[SLED_BLOCK_DIFFICULTY_TREE][h])]_vars

\* C32 witness: insert_order was called with two pairs that both name height 0, the
\* order tree holds the hash given last for it, and the entry of height 1 is still
\* there.
C32_Witness ==
    /\ last.op = "insert_order"
    /\ last.res.tag = "Ok"
    /\ last.arg[2] = 2
    /\ DOMAIN last.arg[1] = {0}
    /\ Tree_get(order, to_be_bytes(0)) = Some(last.arg[1][0])
    /\ Tree_contains_key(order, to_be_bytes(1))


\* The proposal of the call is stored with both vote commits of the call's
\* blind_total_vote.
StoredWithVote(proposal_db, arg) ==
    /\ arg.proposal \in DOMAIN proposal_db
    /\ proposal_db[arg.proposal].vote_aggregate.yes_vote_commit
           = arg.blind_total_vote.yes_vote_commit
    /\ proposal_db[arg.proposal].vote_aggregate.all_vote_commit
           = arg.blind_total_vote.all_vote_commit

\* The outcomes of a call whose auth calls do not all name a matching child.
ChildCheckFailures == {Panic, Err(<<"ExecCallWrongChildCall">>)}

\* C33 as stated: once dao_exec_process_update has been applied for a proposal, the
\* proposal is not in the proposal database, and every later
\* dao_exec_process_instruction for it fails with ProposalNonexistent.
C33_ExecutedOnce ==
    \A p \in dao.executed :
        /\ p \notin DOMAIN dao.proposals
        /\ (last.op = "dao_exec_process_instruction" /\ last.arg.proposal = p)
               => last.res = Err(<<"ProposalNonexistent">>)

\* C33 amended: a state update is applied at most once for a proposal; once it has
\* been applied the proposal is not in the proposal database, and every later
\* dao_exec_process_instruction for it yields no state update: it fails with
\* ProposalNonexistent when every auth call names a matching child, and with
\* ExecCallWrongChildCall or a panic of the child check otherwise.
C33_ExecutedOnceNoLaterUpdate ==
    [][/\ \A p \in dao'.executed : p \notin DOMAIN dao'.proposals
       /\ last'.op = "dao_exec_process_update"
              => /\ last'.arg.proposal \notin dao.executed
                 /\ last'.arg.proposal \in DOMAIN dao.proposals
                 /\ dao'.executed = dao.executed \cup {last'.arg.proposal}
       /\ (last'.op = "dao_exec_process_instruction"
                /\ last'.arg.proposal \in dao.executed)
              => /\ last'.res.tag # "Ok"
                 /\ last'.arg.all_match => last'.res = Err(<<"ProposalNonexistent">>)
                 /\ ~last'.arg.all_match => last'.res \in ChildCheckFailures]_vars

\* An executed proposal is named again by a call whose children match, and the call
\* fails with ProposalNonexistent.
C33_Witness ==
    /\ last.op = "dao_exec_process_instruction"
    /\ last.arg.proposal \in dao.executed
    /\ last.arg.all_match
    /\ last.res = Err(<<"ProposalNonexistent">>)
    /\ dao.db_read

\* C34 as stated: dao_exec_process_instruction returns a state update only when the
\* proposal is stored with both vote commits of the call; otherwise it fails with
\* ProposalNonexistent or VoteCommitMismatch; it never changes the proposal
\* database, which only dao_exec_process_update changes.
C34_InstructionOutcome ==
    [][/\ last'.op = "dao_exec_process_instruction"
              => /\ dao'.proposals = dao.proposals
                 /\ last'.res.tag = "Ok" => StoredWithVote(dao.proposals, last'.arg)
                 /\ ~StoredWithVote(dao.proposals, last'.arg)
                        => last'.res \in {Err(<<"ProposalNonexistent">>),
                                          Err(<<"VoteCommitMismatch">>)}
       /\ dao'.proposals # dao.proposals => last'.op = "dao_exec_process_update"]_vars

\* C34 amended: dao_exec_process_instruction returns a state update, naming the
\* proposal of the call, exactly when every auth call names a matching child and the
\* proposal is stored with both vote commits of the call. Otherwise it yields no
\* update: ExecCallWrongChildCall or a panic when the child check fails, else
\* ProposalNonexistent when the proposal is not stored, else VoteCommitMismatch. It
\* never changes the proposal database, which only dao_exec_process_update changes.
C34_InstructionOutcomeAfterChildCheck ==
    [][/\ last'.op = "dao_exec_process_instruction"
              => /\ dao'.proposals = dao.proposals
                 /\ IF ~last'.arg.all_match
                    THEN last'.res \in ChildCheckFailures /\ ~dao'.db_read
                    ELSE IF last'.arg.proposal \notin DOMAIN dao.proposals
                    THEN last'.res = Err(<<"ProposalNonexistent">>)
                    ELSE IF ~StoredWithVote(dao.proposals, last'.arg)
                    THEN last'.res = Err(<<"VoteCommitMismatch">>)
                    ELSE last'.res = Ok(<<"Exec", [proposal |-> last'.arg.proposal]>>)
       /\ dao'.proposals # dao.proposals => last'.op = "dao_exec_process_update"]_vars

\* A call whose children match names a stored proposal whose yes_vote_commit is that
\* of the call and whose all_vote_commit is not, and fails with VoteCommitMismatch.
C34_Witness ==
    /\ last.op = "dao_exec_process_instruction"
    /\ last.arg.all_match
    /\ last.arg.proposal \in DOMAIN dao.proposals
    /\ dao.proposals[last.arg.proposal].vote_aggregate.yes_vote_commit
           = last.arg.blind_total_vote.yes_vote_commit
    /\ dao.proposals[last.arg.proposal].vote_aggregate.all_vote_commit
           # last.arg.blind_total_vote.all_vote_commit
    /\ last.res = Err(<<"VoteCommitMismatch">>)

\* C35: dao_exec_process_instruction returns a state update only if every auth call
\* names a child of its contract id and function code, and a call with one
\* mismatching child fails with ExecCallWrongChildCall without reading the proposal
\* database.
C35_ChildCallsChecked ==
    last.op = "dao_exec_process_instruction"
        => /\ last.res.tag = "Ok" => last.arg.all_match
           /\ last.arg.some_mismatch
                  => /\ last.res = Err(<<"ExecCallWrongChildCall">>)
                     /\ ~dao.db_read

====
